---- MODULE Spec2Model ----
(***************************************************************************)
(* Hybrid rendering back-end: tier engine (HybridEngine), tier detection,  *)
(* LOD downsampling, renderer hit tests and the interaction bridge.        *)
(* Times are whole milliseconds; frame budgets are kept in hundredths of   *)
(* a millisecond (16.67 ms = 1667) and compared after scaling.             *)
(***************************************************************************)
EXTENDS Integers, Sequences, FiniteSets, TLC

VARIABLES
    engine,              \* HybridEngine instance fields
    performanceHistory,  \* detection.ts module-level performanceHistory
    now,                 \* performance.now(), in ms
    caps,                \* tiers detectDeviceCapabilities reports as supported
    opTrace,             \* what the last operation did, in order: events, renderer calls, console
    lastRender,          \* the renderer call made by the most recent successful render
    lastSwitchTo,        \* 'to' of the most recent tierSwitch event delivered to a subscriber
    lastData,            \* the dataset handed to the last operation, if it was a render or evaluateTierChange
    lastOp,              \* name of the most recent operation
    idles,               \* number of idle periods so far
    tierInput,           \* dataset, context size and thresholds handed to tier detection
    tierResult,          \* the tier detection returned for tierInput
    hitData,             \* the chart's series data, as points in pixel coordinates
    surfaces,            \* per renderer: currentData and, for canvas, its spatialIndex
    hitQuery,            \* the last hit-test query (x, y, radius)
    hitResult,           \* what each renderer's hitTest returned for hitQuery
    regionQuery,         \* the rectangle last put to the renderers
    regionResult,        \* what each renderer's getPointsInRegion returned for it
    bridge,              \* InteractionBridge instance fields
    wallClock,           \* Date.now(), in ms
    bridgeOp,            \* name of the most recent bridge operation
    attachLog,           \* the renderers the bridge was attached to, in order, and its destroy
    lodInput,            \* points, targetPoints and config handed to applyLOD
    lodResult,           \* the LODResult applyLOD returned for lodInput
    thresholdInput,      \* the partial threshold configuration handed to validateThresholds
    validated,           \* the configuration validateThresholds returned for it
    dispatcher,          \* a PipelineDispatcher, with the execute call in progress
    pool                 \* a WorkerPool, with its workers' threads, timers and promises

engineVars == <<engine, performanceHistory, now, caps, opTrace, lastRender, lastSwitchTo,
                lastData, lastOp, idles>>

tierVars == <<tierInput, tierResult>>

\* what the engine's operations leave alone
hitVars == <<hitData, surfaces, hitQuery, hitResult, regionQuery, regionResult>>

bridgeVars == <<bridge, wallClock, bridgeOp, attachLog>>

lodVars == <<lodInput, lodResult>>

\* what the engine's operations leave alone
thresholdVars == <<thresholdInput, validated>>

pipelineVars == <<dispatcher, pool>>

\* what the engine's operations leave alone
besideEngine == <<tierVars, hitVars, bridgeVars, lodVars, thresholdVars, pipelineVars>>

vars == <<engineVars, tierVars, hitVars, bridgeVars, lodVars, thresholdVars, pipelineVars>>

None == "none"

\* ------------------------------------------------------------------ tiers
SVG == "svg"
CANVAS == "canvas"
WEBGL == "webgl"
RendererTier == {SVG, CANVAS, WEBGL}

\* the list [WEBGL, CANVAS, SVG] both detection functions walk
tiers == <<WEBGL, CANVAS, SVG>>

indexOf(t) == CHOOSE i \in 1..Len(tiers) : tiers[i] = t

\* capability order of the tiers: svg < canvas < webgl
Rank(t) == Len(tiers) - indexOf(t)

\* ------------------------------------------------------------------ program constants
DefaultSvgToCanvas == 5000
DefaultCanvasToWebGL == 50000
\* pointsPerPixelCanvas = 5 and pointsPerPixelWebGL = 50, in tenths
DefaultPointsPerPixelCanvas == 50
DefaultPointsPerPixelWebGL == 500
\* targetFrameTime 16.67 ms and maxFrameTime 33.33 ms, in hundredths of a ms
DefaultTargetFrameTime == 1667
DefaultMaxFrameTime == 3333
DefaultDegradeFrameThreshold == 10
\* violationThreshold default of shouldDegradeTier
DefaultViolationThreshold == 10
maxFrameMetrics == 60
MAX_HISTORY == 60
\* windowMs default of countPerformanceViolations / shouldDegradeTier
DefaultWindowMs == 1000
\* shouldReevaluateTier: every 30 frames, density change of more than 1000 points
ReevaluateEvery == 30
DensityChangePoints == 1000

\* ------------------------------------------------------------------ bounds
\* renders per behaviour in the lifecycle specification
MaxRenders == 2
\* renders per behaviour in the performance specification
MaxPerfRenders == 3
\* renders per behaviour in the sustained-load specification: enough to reach
\* the default violation threshold of getTierRecommendation
MaxSustainedRenders == 10
\* renders per behaviour in the cadence specification (two full 30-frame periods)
MaxCadenceRenders == 61
\* the first renders of a cadence run, during which the dataset may still change
CadenceWarmup == 2
\* the clock stops advancing by idling past this many ms
MaxIdles == 1

Abs(x) == IF x < 0 THEN -x ELSE x

DEFAULT_THRESHOLDS ==
    [ svgToCanvas |-> DefaultSvgToCanvas,
      canvasToWebGL |-> DefaultCanvasToWebGL,
      pointsPerPixelCanvas |-> DefaultPointsPerPixelCanvas,
      pointsPerPixelWebGL |-> DefaultPointsPerPixelWebGL,
      forceRenderer |-> None ]

MOBILE_THRESHOLDS ==
    [ svgToCanvas |-> 2000,
      canvasToWebGL |-> 20000,
      pointsPerPixelCanvas |-> 30,
      pointsPerPixelWebGL |-> 300,
      forceRenderer |-> None ]

\* a partial configuration: given names the fields that are present
PartialThresholds(given, svgToCanvas, canvasToWebGL, pointsPerPixelCanvas, pointsPerPixelWebGL) ==
    [ given |-> given, svgToCanvas |-> svgToCanvas, canvasToWebGL |-> canvasToWebGL,
      pointsPerPixelCanvas |-> pointsPerPixelCanvas,
      pointsPerPixelWebGL |-> pointsPerPixelWebGL ]

\* config.field ?? base.field
OrBase(config, field) ==
    IF field \in config.given THEN config[field] ELSE DEFAULT_THRESHOLDS[field]

Max(a, b) == IF a >= b THEN a ELSE b

\* densities are in tenths of a point per pixel, so their floor 0.1 is 1; the
\* configurations validated here leave forceRenderer out
validateThresholds(config) ==
    [ svgToCanvas |-> Max(100, OrBase(config, "svgToCanvas")),
      canvasToWebGL |-> Max(OrBase(config, "svgToCanvas"), OrBase(config, "canvasToWebGL")),
      pointsPerPixelCanvas |-> Max(1, OrBase(config, "pointsPerPixelCanvas")),
      pointsPerPixelWebGL |-> Max(1, OrBase(config, "pointsPerPixelWebGL")),
      forceRenderer |-> DEFAULT_THRESHOLDS.forceRenderer ]

\* ------------------------------------------------------------------ detection.ts
\* pointsPerPixel as the exact fraction num/den; a zero pixel area gives 0
calculatePointDensity(pointCount, width, height) ==
    IF width * height = 0 THEN [num |-> 0, den |-> 1]
    ELSE [num |-> pointCount, den |-> width * height]

\* a dataset is summarised by its total point count; width and height are
\* the two numbers the caller passes on
calculateDensityMetrics(totalPoints, width, height) ==
    [ totalPoints |-> totalPoints,
      pointsPerPixel |-> calculatePointDensity(totalPoints, width, height) ]

\* pointsPerPixel >= threshold, threshold in tenths
DensityAtLeast(ppp, tenths) == ppp.num * 10 >= tenths * ppp.den

\* the thresholds taken as exclusive
detectOptimalTier_exclusive(metrics, config) ==
    IF config.forceRenderer # None THEN config.forceRenderer
    ELSE IF metrics.totalPoints > config.canvasToWebGL THEN WEBGL
    ELSE IF metrics.totalPoints > config.svgToCanvas THEN CANVAS
    ELSE IF DensityAtLeast(metrics.pointsPerPixel, config.pointsPerPixelWebGL) THEN WEBGL
    ELSE IF DensityAtLeast(metrics.pointsPerPixel, config.pointsPerPixelCanvas) THEN CANVAS
    ELSE SVG

detectOptimalTier(metrics, config) ==
    IF config.forceRenderer # None THEN config.forceRenderer
    ELSE IF metrics.totalPoints >= config.canvasToWebGL THEN WEBGL
    ELSE IF metrics.totalPoints >= config.svgToCanvas THEN CANVAS
    ELSE IF DensityAtLeast(metrics.pointsPerPixel, config.pointsPerPixelWebGL) THEN WEBGL
    ELSE IF DensityAtLeast(metrics.pointsPerPixel, config.pointsPerPixelCanvas) THEN CANVAS
    ELSE SVG

isTierAvailable(tier) == tier \in caps

getFallbackTier(preferred) ==
    LET ok == { i \in indexOf(preferred)..Len(tiers) : isTierAvailable(tiers[i]) }
    IN IF ok = {} THEN SVG
       ELSE tiers[CHOOSE i \in ok : \A j \in ok : i <= j]

recordPerformance(hist, snapshot) ==
    LET pushed == Append(hist, snapshot)
    IN IF Len(pushed) > MAX_HISTORY THEN Tail(pushed) ELSE pushed

\* frameTime (ms) > budget (hundredths of a ms)
OverBudget(frameTime, budget) == frameTime * 100 > budget

countPerformanceViolations(hist, t, budget, windowMs) ==
    Cardinality({ i \in 1..Len(hist) :
        /\ hist[i].timestamp >= t - windowMs
        /\ OverBudget(hist[i].frameTime, budget) })

shouldDegradeTier(hist, t, currentTier, budget, violationThreshold) ==
    IF countPerformanceViolations(hist, t, budget, DefaultWindowMs) >= violationThreshold
    THEN IF indexOf(currentTier) < Len(tiers)
         THEN IF isTierAvailable(tiers[indexOf(currentTier) + 1])
              THEN tiers[indexOf(currentTier) + 1]
              ELSE None
         ELSE None
    ELSE None

\* 1000 / 60 ms expressed against OverBudget: frameTime > 1000/60
Over60fpsBudget(frameTime) == frameTime * 60 > 1000

count60fpsViolations(hist, t) ==
    Cardinality({ i \in 1..Len(hist) :
        /\ hist[i].timestamp >= t - DefaultWindowMs
        /\ Over60fpsBudget(hist[i].frameTime) })

\* shouldDegradeTier(optimal, 1000 / 60) with the default violationThreshold
shouldDegradeOptimal(hist, t, optimal) ==
    IF count60fpsViolations(hist, t) >= DefaultViolationThreshold
    THEN IF indexOf(optimal) < Len(tiers)
         THEN IF isTierAvailable(tiers[indexOf(optimal) + 1])
              THEN tiers[indexOf(optimal) + 1]
              ELSE None
         ELSE None
    ELSE None

getTierRecommendation(hist, t, data, thresholds) ==
    LET metrics == calculateDensityMetrics(data.points, data.width, data.height)
        optimal == detectOptimalTier(metrics, thresholds)
        degraded == shouldDegradeOptimal(hist, t, optimal)
    IN IF ~isTierAvailable(optimal)
       THEN [recommended |-> getFallbackTier(optimal), reason |-> "fallback"]
       ELSE IF degraded # None /\ degraded # optimal
       THEN [recommended |-> degraded, reason |-> "performance"]
       ELSE [recommended |-> optimal, reason |-> "density"]


\* ------------------------------------------------------------------ HybridEngine
\* renderer objects; each implements one tier (Renderer.tier is readonly)
Renderers == {"svg1", "svg2", "canvas1", "webgl1"}

tierOf(r) ==
    CASE r \in {"svg1", "svg2"} -> SVG
      [] r = "canvas1" -> CANVAS
      [] r = "webgl1" -> WEBGL

\* one entry of opTrace: an event handed to emitEvent (type is the event's type),
\* a renderer call, or a console line; unused fields are None
Entry(type, from, to, reason, renderer, handlers) ==
    [ type |-> type, from |-> from, to |-> to, reason |-> reason,
      renderer |-> renderer, handlers |-> handlers ]

ConsoleEntry(level) == Entry(level, None, None, None, None, {})

\* DEFAULT_CONFIG merged with the constructor's override
mergeConfig(override) ==
    [ thresholds |-> [ DEFAULT_THRESHOLDS EXCEPT !.forceRenderer = override.forceRenderer ],
      targetFrameTime |-> DefaultTargetFrameTime,
      maxFrameTime |-> DefaultMaxFrameTime,
      autoDegrade |-> override.autoDegrade,
      degradeFrameThreshold |-> override.degradeFrameThreshold ]

createInitialState ==
    [ currentTier |-> SVG, dataDensity |-> 0, performanceViolations |-> 0 ]

\* new HybridEngine(config)
NewEngine(override) ==
    [ config |-> mergeConfig(override),
      state |-> createInitialState,
      renderers |-> [t \in RendererTier |-> None],
      currentRenderer |-> None,
      eventHandlers |-> {},
      frameCount |-> 0,
      droppedFrames |-> 0,
      isDestroyed |-> FALSE,
      frameMetrics |-> << >> ]

\* The operations below thread a world w = [e, hist, t, tr]: the engine, the
\* detection module's history, the clock and the trace of the running operation.
World(e, hist, t, tr) == [e |-> e, hist |-> hist, t |-> t, tr |-> tr]

\* handlers whose call raises
ThrowingHandlers == {"hThrows"}

\* every handler is called inside its own try/catch; the catch block writes to
\* console.error and the loop goes on
emitEvent(w, entry) ==
    LET thrown == w.e.eventHandlers \cap ThrowingHandlers
        delivered == Append(w.tr, [entry EXCEPT !.handlers = w.e.eventHandlers])
    IN [w EXCEPT !.tr = delivered \o
                        [i \in 1..Cardinality(thrown) |-> ConsoleEntry("console.error")]]

\* switchTier without the emitEvent call
switchTier_silent(w, newTier, reason) ==
    IF newTier = w.e.state.currentTier THEN w
    ELSE IF w.e.renderers[newTier] = None
    THEN [w EXCEPT !.tr = Append(@, ConsoleEntry("console.warn"))]
    ELSE [w EXCEPT !.e.state.currentTier = newTier,
                   !.e.currentRenderer = w.e.renderers[newTier]]

switchTier(w, newTier, reason) ==
    IF newTier = w.e.state.currentTier THEN w
    ELSE IF w.e.renderers[newTier] = None
    THEN [w EXCEPT !.tr = Append(@, ConsoleEntry("console.warn"))]
    ELSE emitEvent(
           [w EXCEPT !.e.state.currentTier = newTier,
                     !.e.currentRenderer = w.e.renderers[newTier]],
           Entry("tierSwitch", w.e.state.currentTier, newTier, reason, None, {}))

switchToFallbackTier(w) ==
    switchTier(w, getFallbackTier(w.e.state.currentTier), "fallback")

\* evaluateTierChange without its forced-renderer branch
evaluateTierChange_unforced(w, data) ==
    LET hasData == data.given /\ data.width # 0 /\ data.height # 0
        rec == getTierRecommendation(w.hist, w.t, data, w.e.config.thresholds)
        degraded == shouldDegradeTier(w.hist, w.t, w.e.state.currentTier,
                                      w.e.config.targetFrameTime,
                                      w.e.config.degradeFrameThreshold)
    IN IF hasData /\ rec.recommended # w.e.state.currentTier
       THEN switchTier(w, rec.recommended, rec.reason)
       ELSE IF w.e.config.autoDegrade /\ degraded # None
       THEN switchTier(w, degraded, "performance")
       ELSE w

\* data.given = FALSE stands for a call without arguments; a zero width or height is falsy
evaluateTierChange(w, data) ==
    LET force == w.e.config.thresholds.forceRenderer
        hasData == data.given /\ data.width # 0 /\ data.height # 0
        rec == getTierRecommendation(w.hist, w.t, data, w.e.config.thresholds)
        degraded == shouldDegradeTier(w.hist, w.t, w.e.state.currentTier,
                                      w.e.config.targetFrameTime,
                                      w.e.config.degradeFrameThreshold)
    IN IF force # None
       THEN IF force # w.e.state.currentTier /\ isTierAvailable(force)
            THEN switchTier(w, force, "manual")
            ELSE w
       ELSE IF hasData /\ rec.recommended # w.e.state.currentTier
       THEN switchTier(w, rec.recommended, rec.reason)
       ELSE IF w.e.config.autoDegrade /\ degraded # None
       THEN switchTier(w, degraded, "performance")
       ELSE w

forceSwitchTier(w, tier) ==
    IF ~isTierAvailable(tier)
    THEN switchTier(w, getFallbackTier(tier), "fallback")
    ELSE switchTier(w, tier, "manual")

\* the frame counter is bumped as a side effect of the test
shouldReevaluateTier(e, data) ==
    /\ (e.frameCount + 1) % ReevaluateEvery = 0
    /\ Abs(data.points - e.state.dataDensity) > DensityChangePoints

\* a full ring refusing the new entry instead of giving up its oldest
recordFrameMetrics_popNewest(w, frameTime, data) ==
    LET dropped == OverBudget(frameTime, w.e.config.maxFrameTime)
        metric == [ timestamp |-> w.t, frameTime |-> frameTime,
                    pointCount |-> data.points,
                    tier |-> w.e.state.currentTier, dropped |-> dropped ]
        pushed == Append(w.e.frameMetrics, metric)
        ring == IF Len(pushed) > maxFrameMetrics THEN w.e.frameMetrics ELSE pushed
        violations == IF dropped THEN w.e.state.performanceViolations + 1
                      ELSE w.e.state.performanceViolations
        w1 == [w EXCEPT !.e.droppedFrames = IF dropped THEN @ + 1 ELSE @,
                        !.e.frameMetrics = ring,
                        !.e.state.dataDensity = data.points,
                        !.e.state.performanceViolations = violations,
                        !.hist = recordPerformance(@,
                                   [timestamp |-> w.t, frameTime |-> frameTime])]
    IN IF dropped /\ violations >= w.e.config.degradeFrameThreshold
       THEN emitEvent(w1, Entry("performanceViolation", None, None, None, None, {}))
       ELSE w1

recordFrameMetrics(w, frameTime, data) ==
    LET dropped == OverBudget(frameTime, w.e.config.maxFrameTime)
        metric == [ timestamp |-> w.t, frameTime |-> frameTime,
                    pointCount |-> data.points,
                    tier |-> w.e.state.currentTier, dropped |-> dropped ]
        pushed == Append(w.e.frameMetrics, metric)
        ring == IF Len(pushed) > maxFrameMetrics THEN Tail(pushed) ELSE pushed
        violations == IF dropped THEN w.e.state.performanceViolations + 1
                      ELSE w.e.state.performanceViolations
        w1 == [w EXCEPT !.e.droppedFrames = IF dropped THEN @ + 1 ELSE @,
                        !.e.frameMetrics = ring,
                        !.e.state.dataDensity = data.points,
                        !.e.state.performanceViolations = violations,
                        !.hist = recordPerformance(@,
                                   [timestamp |-> w.t, frameTime |-> frameTime])]
    IN IF dropped /\ violations >= w.e.config.degradeFrameThreshold
       THEN emitEvent(w1, Entry("performanceViolation", None, None, None, None, {}))
       ELSE w1

\* render(data, context); frameTime is how long the renderer's render takes and
\* throws says whether it raises (nothing in render catches it)
render(w, data, frameTime, throws) ==
    IF w.e.isDestroyed THEN w
    ELSE
      LET w0 == [w EXCEPT !.e.frameCount = @ + 1]
          w1 == IF shouldReevaluateTier(w.e, data) THEN evaluateTierChange(w0, data) ELSE w0
          w2 == IF w1.e.currentRenderer = None THEN switchToFallbackTier(w1) ELSE w1
          call == Entry(IF throws THEN "renderThrows" ELSE "render", None,
                        w2.e.state.currentTier, None, w2.e.currentRenderer, {})
          w3 == [w2 EXCEPT !.tr = Append(@, call), !.t = @ + frameTime]
      IN IF w2.e.currentRenderer = None
         THEN [w2 EXCEPT !.tr = Append(@, ConsoleEntry("console.error"))]
         ELSE IF throws THEN w3
         ELSE recordFrameMetrics(w3, frameTime, data)

registerRenderer(e, tier, renderer) ==
    [e EXCEPT !.renderers[tier] = renderer,
              !.currentRenderer =
                  IF @ = None /\ tier = e.state.currentTier THEN renderer ELSE @]

unregisterRenderer(w, tier) ==
    LET renderer == w.e.renderers[tier]
        removed == [w EXCEPT !.e.renderers[tier] = None]
    IN IF renderer = None THEN w
       ELSE IF w.e.currentRenderer = renderer
       THEN switchToFallbackTier([removed EXCEPT !.e.currentRenderer = None])
       ELSE removed

onEvent(e, handler) == [e EXCEPT !.eventHandlers = @ \cup {handler}]

\* the function onEvent returns
offEvent(e, handler) == [e EXCEPT !.eventHandlers = @ \ {handler}]

destroy(e) ==
    [e EXCEPT !.isDestroyed = TRUE,
              !.renderers = [t \in RendererTier |-> None],
              !.currentRenderer = None,
              !.eventHandlers = {}]


\* ------------------------------------------------------------------ renderers: hit testing
\* CanvasRenderer.hitTestRadius
hitTestRadius == 10

\* the render context the renderers are given: the scales map a point to its own
\* x and y, in pixels of the inner plot area
HitContext == [ margin |-> 10, height |-> 100 ]

NoHit == [ found |-> FALSE, pt |-> << >>, series |-> None, d2 |-> 0 ]

Dist2(px, py, qx, qy) == (px - qx) * (px - qx) + (py - qy) * (py - qy)

\* a DataPoint object as the renderers hand it out: its coordinates and the
\* series whose data array holds it (two series may hold points of equal coordinates)
PointObject(p) == <<p.x, p.y, p.series>>

\* the loop body shared by the three hit tests: entries are points with their
\* pixel position; distances are compared squared
RECURSIVE closestOf(_, _, _, _, _)
closestOf(entries, qx, qy, radius, closest) ==
    IF entries = << >> THEN closest
    ELSE LET en == Head(entries)
             d2 == Dist2(en.px, en.py, qx, qy)
             hit == d2 < radius * radius /\ (~closest.found \/ d2 < closest.d2)
         IN closestOf(Tail(entries), qx, qy, radius,
                      IF hit THEN [ found |-> TRUE, pt |-> PointObject(en.point),
                                    series |-> en.point.series, d2 |-> d2 ]
                      ELSE closest)

\* render: the renderer keeps the data it drew
renderKeep(data) == [ currentData |-> data, spatialIndex |-> << >> ]

cellOf(x, y) == << x \div (hitTestRadius * 2), y \div (hitTestRadius * 2) >>

\* the cells that hold a point, each with its points in insertion order
buildSpatialIndex(data) ==
    [ c \in { cellOf(data[i].x, data[i].y) : i \in 1..Len(data) } |->
        SelectSeq(data, LAMBDA p : cellOf(p.x, p.y) = c) ]

CanvasRenderer_render(data) ==
    [ currentData |-> data, spatialIndex |-> buildSpatialIndex(data) ]

SVGRenderer_hitTest(surface, x, y, radius) ==
    IF surface.currentData = << >> THEN NoHit
    ELSE closestOf([ i \in 1..Len(surface.currentData) |->
                       [ point |-> surface.currentData[i],
                         px |-> surface.currentData[i].x,
                         py |-> surface.currentData[i].y ] ],
                   x - HitContext.margin, y - HitContext.margin, radius, NoHit)

\* the world y axis points up
WebGLRenderer_hitTest(surface, x, y, radius) ==
    IF surface.currentData = << >> THEN NoHit
    ELSE closestOf([ i \in 1..Len(surface.currentData) |->
                       [ point |-> surface.currentData[i],
                         px |-> surface.currentData[i].x,
                         py |-> HitContext.height - surface.currentData[i].y ] ],
                   x - HitContext.margin,
                   HitContext.height - (y - HitContext.margin), radius, NoHit)

\* the points of the 3 x 3 cells around the query, in the order the loops visit them
RECURSIVE neighbourhood(_, _, _, _)
neighbourhood(index, cellX, cellY, k) ==
    IF k = 9 THEN << >>
    ELSE LET key == << cellX + (k \div 3) - 1, cellY + (k % 3) - 1 >>
             here == IF key \in DOMAIN index THEN index[key] ELSE << >>
         IN here \o neighbourhood(index, cellX, cellY, k + 1)

\* p.x === q.x && p.y === q.y
sameCoordinates(p, q) == p[1] = q[1] /\ p[2] = q[2]

\* the first series that holds a point with these coordinates
seriesOf(data, pt) ==
    data[CHOOSE i \in 1..Len(data) :
            /\ sameCoordinates(PointObject(data[i]), pt)
            /\ \A j \in 1..(i - 1) : ~sameCoordinates(PointObject(data[j]), pt)].series

CanvasRenderer_hitTest(surface, x, y, radius) ==
    IF surface.currentData = << >> THEN NoHit
    ELSE LET dataX == x - HitContext.margin
             dataY == y - HitContext.margin
             cell == cellOf(dataX, dataY)
             near == neighbourhood(surface.spatialIndex, cell[1], cell[2], 0)
             closest == closestOf([ i \in 1..Len(near) |->
                                      [ point |-> near[i], px |-> near[i].x, py |-> near[i].y ] ],
                                  dataX, dataY, radius, NoHit)
         IN IF closest.found
            THEN [ closest EXCEPT !.series = seriesOf(surface.currentData, closest.pt) ]
            ELSE closest

\* ------------------------------------------------------------------ renderers: region queries
Min(a, b) == IF a <= b THEN a ELSE b

\* the rectangle of a region query, moved into the inner plot area
regionOf(x1, y1, x2, y2) ==
    [ minX |-> Min(x1, x2) - HitContext.margin, maxX |-> Max(x1, x2) - HitContext.margin,
      minY |-> Min(y1, y2) - HitContext.margin, maxY |-> Max(y1, y2) - HitContext.margin ]

inRegion(px, py, r) == px >= r.minX /\ px <= r.maxX /\ py >= r.minY /\ py <= r.maxY

Members(q) == { q[i] : i \in 1..Len(q) }

PointObjects(points) == [ i \in 1..Len(points) |-> PointObject(points[i]) ]

SVGRenderer_getPointsInRegion(surface, x1, y1, x2, y2) ==
    PointObjects(SelectSeq(surface.currentData,
                           LAMBDA p : inRegion(p.x, p.y, regionOf(x1, y1, x2, y2))))

\* py is flipped and has the margin taken off before it is compared
WebGLRenderer_getPointsInRegion(surface, x1, y1, x2, y2) ==
    PointObjects(SelectSeq(surface.currentData,
                           LAMBDA p : inRegion(p.x, HitContext.height - p.y - HitContext.margin,
                                               regionOf(x1, y1, x2, y2))))

\* the points of the cells covering the rectangle, columns outermost, in the order
\* the loops visit them
RECURSIVE cellsPoints(_, _, _, _, _)
cellsPoints(index, startCell, columns, rows, k) ==
    IF k >= columns * rows THEN << >>
    ELSE LET key == << startCell[1] + (k \div rows), startCell[2] + (k % rows) >>
             here == IF key \in DOMAIN index THEN index[key] ELSE << >>
         IN here \o cellsPoints(index, startCell, columns, rows, k + 1)

CanvasRenderer_getPointsInRegion(surface, x1, y1, x2, y2) ==
    LET r == regionOf(x1, y1, x2, y2)
        startCell == cellOf(r.minX, r.minY)
        endCell == cellOf(r.maxX, r.maxY)
        covered == cellsPoints(surface.spatialIndex, startCell,
                               endCell[1] - startCell[1] + 1,
                               endCell[2] - startCell[2] + 1, 0)
    IN PointObjects(SelectSeq(covered, LAMBDA p : inRegion(p.x, p.y, r)))


\* ------------------------------------------------------------------ interaction-bridge.ts
DEFAULT_INTERACTION_CONFIG ==
    [ hoverRadius |-> 10,
      selectionRadius |-> 15,
      hoverDebounceMs |-> 16,
      zoomDebounceMs |-> 50,
      doubleClickThresholdMs |-> 300,
      enableKeyboardNavigation |-> TRUE ]

\* a setTimeout handle: id says the field is non-null, pending that the callback
\* is still to run; x and y are what the callback closes over
NoTimer == [ id |-> FALSE, pending |-> FALSE, x |-> 0, y |-> 0 ]
Timer(x, y) == [ id |-> TRUE, pending |-> TRUE, x |-> x, y |-> y ]

NoClick == [ set |-> FALSE, time |-> 0, x |-> 0, y |-> 0 ]
NoPoint == << >>

\* the callbacks a client can register
Callbacks == {"onHover", "onClick", "onSelection", "onZoom", "onTooltip"}

\* new InteractionBridge(); points are kept as PointObject does. callbacks holds the
\* callback fields that are defined; invoked is what the operation under way has
\* run so far: callbacks, timer bodies ("hoverTimer", "zoomTimer") and renderer
\* hit tests ("hitTest")
NewBridge ==
    [ config |-> DEFAULT_INTERACTION_CONFIG,
      callbacks |-> {},
      invoked |-> {},
      container |-> FALSE,
      renderer |-> None,
      selection |-> << >>,
      hoverPoint |-> NoPoint,
      hoverSeries |-> None,
      tooltipVisible |-> FALSE,
      hoverTimer |-> NoTimer,
      zoomTimer |-> NoTimer,
      isBrushing |-> FALSE,
      brushStart |-> NoPoint,
      brushCurrent |-> NoPoint,
      lastClick |-> NoClick ]

\* this.renderer.hitTest(x, y, radius) on the renderer of the given tier
rendererHitTest(tier, x, y, radius) ==
    IF tier = SVG THEN SVGRenderer_hitTest(surfaces[tier], x, y, radius)
    ELSE IF tier = CANVAS THEN CanvasRenderer_hitTest(surfaces[tier], x, y, radius)
    ELSE WebGLRenderer_hitTest(surfaces[tier], x, y, radius)

\* this.onXCallback?.(...)
call(b, callback) ==
    IF callback \in b.callbacks THEN [ b EXCEPT !.invoked = @ \cup {callback} ] ELSE b

ran(b, what) == [ b EXCEPT !.invoked = @ \cup {what} ]

\* clearTimers that leaves the timeouts running
clearTimers_leaky(b) == b

\* this.renderer.getPointsInRegion(x1, y1, x2, y2) on the renderer of the given tier
rendererGetPointsInRegion(tier, x1, y1, x2, y2) ==
    IF tier = SVG THEN SVGRenderer_getPointsInRegion(surfaces[tier], x1, y1, x2, y2)
    ELSE IF tier = CANVAS THEN CanvasRenderer_getPointsInRegion(surfaces[tier], x1, y1, x2, y2)
    ELSE WebGLRenderer_getPointsInRegion(surfaces[tier], x1, y1, x2, y2)

clearTimers(b) ==
    [ b EXCEPT !.hoverTimer = IF @.id THEN NoTimer ELSE @,
               !.zoomTimer = IF @.id THEN NoTimer ELSE @ ]

\* detach that also forgets the selection
detach_forgetful(b) ==
    [ clearTimers(b) EXCEPT !.container = FALSE, !.renderer = None, !.selection = << >> ]

detach(b) ==
    [ clearTimers(b) EXCEPT !.container = FALSE, !.renderer = None ]

attach(b, renderer) ==
    [ detach(b) EXCEPT !.container = TRUE, !.renderer = renderer ]

handleMouseMove(b, x, y) ==
    IF ~b.container \/ b.renderer = None THEN b
    ELSE IF b.isBrushing /\ b.brushStart # NoPoint
    THEN [ b EXCEPT !.brushCurrent = <<x, y>> ]
    ELSE [ b EXCEPT !.hoverTimer = Timer(x, y) ]

performHitTest(b, x, y) ==
    IF b.renderer = None THEN b
    ELSE LET result == rendererHitTest(b.renderer, x, y, b.config.hoverRadius)
             hit == [ ran(b, "hitTest") EXCEPT !.hoverPoint = result.pt,
                                               !.hoverSeries = result.series,
                                               !.tooltipVisible = result.found ]
         IN call(call(hit, "onTooltip"), "onHover")

clearHover(b) ==
    call(call([ b EXCEPT !.hoverPoint = NoPoint, !.hoverSeries = None,
                         !.tooltipVisible = FALSE ],
              "onTooltip"), "onHover")

handleMouseLeave(b) == clearHover(b)

\* index of the first selected point with these coordinates, 0 if there is none
findIndex(selection, pt) ==
    IF \E i \in 1..Len(selection) : sameCoordinates(selection[i], pt)
    THEN CHOOSE i \in 1..Len(selection) :
           /\ sameCoordinates(selection[i], pt)
           /\ \A j \in 1..(i - 1) : ~sameCoordinates(selection[j], pt)
    ELSE 0

\* splice(index, 1)
splice(q, index) == [ i \in 1..(Len(q) - 1) |-> IF i < index THEN q[i] ELSE q[i + 1] ]

\* handleClick without the double-click test
handleClick_everyClick(b, x, y, t) ==
    IF ~b.container \/ b.renderer = None THEN b
    ELSE LET result == rendererHitTest(b.renderer, x, y, b.config.selectionRadius)
             existingIndex == findIndex(b.selection, result.pt)
             clicked == [ ran(b, "hitTest") EXCEPT
                            !.lastClick = [ set |-> TRUE, time |-> t, x |-> x, y |-> y ] ]
             toggled == IF ~result.found THEN clicked
                        ELSE IF existingIndex > 0
                        THEN [ clicked EXCEPT !.selection = splice(@, existingIndex) ]
                        ELSE [ clicked EXCEPT !.selection = Append(@, result.pt) ]
         IN call(toggled, "onClick")

handleClick(b, x, y, t) ==
    IF ~b.container \/ b.renderer = None THEN b
    ELSE IF /\ b.lastClick.set
            /\ t - b.lastClick.time < b.config.doubleClickThresholdMs
            /\ Abs(x - b.lastClick.x) < 5
            /\ Abs(y - b.lastClick.y) < 5
    THEN b
    ELSE LET result == rendererHitTest(b.renderer, x, y, b.config.selectionRadius)
             existingIndex == findIndex(b.selection, result.pt)
             clicked == [ ran(b, "hitTest") EXCEPT
                            !.lastClick = [ set |-> TRUE, time |-> t, x |-> x, y |-> y ] ]
             toggled == IF ~result.found THEN clicked
                        ELSE IF existingIndex > 0
                        THEN [ clicked EXCEPT !.selection = splice(@, existingIndex) ]
                        ELSE [ clicked EXCEPT !.selection = Append(@, result.pt) ]
         IN call(toggled, "onClick")

\* the zoom is reset through the callback and the last click forgotten
handleDoubleClick(b) ==
    IF ~b.container \/ b.renderer = None THEN b
    ELSE [ call(b, "onZoom") EXCEPT !.lastClick = NoClick ]

\* the debounced callback closes over the zoom factor and the position; the
\* factor plays no part in what follows and is left out
handleWheel(b, x, y) ==
    IF ~b.container \/ b.renderer = None THEN b
    ELSE [ b EXCEPT !.zoomTimer = Timer(x, y) ]

startBrush(b, x, y) ==
    [ b EXCEPT !.isBrushing = TRUE, !.brushStart = <<x, y>>, !.brushCurrent = <<x, y>> ]

updateBrush(b, x, y) ==
    IF ~b.isBrushing THEN b ELSE [ b EXCEPT !.brushCurrent = <<x, y>> ]

\* endBrush that adds the brushed points to the selection instead of replacing it
endBrush_additive(b) ==
    LET reset == [ b EXCEPT !.isBrushing = FALSE, !.brushStart = NoPoint,
                            !.brushCurrent = NoPoint ]
    IN IF ~b.isBrushing \/ b.brushStart = NoPoint \/ b.brushCurrent = NoPoint
          \/ b.renderer = None
       THEN reset
       ELSE call([ reset EXCEPT !.selection =
                     @ \o rendererGetPointsInRegion(b.renderer, b.brushStart[1], b.brushStart[2],
                                                    b.brushCurrent[1], b.brushCurrent[2]) ],
                 "onSelection")

endBrush(b) ==
    LET reset == [ b EXCEPT !.isBrushing = FALSE, !.brushStart = NoPoint,
                            !.brushCurrent = NoPoint ]
    IN IF ~b.isBrushing \/ b.brushStart = NoPoint \/ b.brushCurrent = NoPoint
          \/ b.renderer = None
       THEN reset
       ELSE call([ reset EXCEPT !.selection =
                     rendererGetPointsInRegion(b.renderer, b.brushStart[1], b.brushStart[2],
                                               b.brushCurrent[1], b.brushCurrent[2]) ],
                 "onSelection")

clearSelection(b) == call([ b EXCEPT !.selection = << >> ], "onSelection")

\* onHover(cb), onClick(cb), onSelection(cb), onZoom(cb), onTooltip(cb)
registerCallback(b, callback) == [ b EXCEPT !.callbacks = @ \cup {callback} ]

InteractionBridge_destroy(b) == [ detach(b) EXCEPT !.callbacks = {} ]

handleEnterOnHover(b) ==
    IF b.hoverPoint # NoPoint /\ findIndex(b.selection, b.hoverPoint) = 0
    THEN [ b EXCEPT !.selection = Append(@, b.hoverPoint) ]
    ELSE b

\* navigateByKeyboard is a placeholder that does nothing
handleKeyDown(b, key) ==
    IF ~b.config.enableKeyboardNavigation THEN b
    ELSE IF key = "Escape" THEN clearSelection(b)
    ELSE IF key = "Enter" /\ b.hoverPoint # NoPoint THEN handleEnterOnHover(b)
    ELSE b


\* ------------------------------------------------------------------ lod.ts
\* a point is [t, y]: x.getTime() in ms and an integer y. Means and ratios are kept
\* exact: a comparison of quotients is made after multiplying out the divisors.
DEFAULT_LOD_CONFIG ==
    [ outlierThreshold |-> 3,
      outlierMethod |-> "zscore",
      preserveMinMax |-> TRUE,
      preserveOutliers |-> TRUE,
      maxOutlierPercentage |-> 10 ]

intervals ==
    << 1, 5, 10, 50, 100, 500, 1000, 5000, 10000, 30000, 60000, 300000, 600000,
       3600000, 18000000, 36000000, 86400000, 604800000 >>

RECURSIVE SumSeq(_)
SumSeq(q) == IF q = << >> THEN 0 ELSE Head(q) + SumSeq(Tail(q))

Ys(points) == [ i \in 1..Len(points) |-> points[i].y ]
MinOf(q) == CHOOSE v \in { q[i] : i \in 1..Len(q) } : \A i \in 1..Len(q) : v <= q[i]
MaxOf(q) == CHOOSE v \in { q[i] : i \in 1..Len(q) } : \A i \in 1..Len(q) : v >= q[i]

\* the first interval of the ladder nearest to duration / targetPoints
calculateBucketSize(start, end, targetPoints) ==
    LET duration == end - start
        diff(i) == Abs(duration - intervals[i] * targetPoints)
    IN IF duration = 0 \/ targetPoints = 0 THEN 1
       ELSE intervals[CHOOSE i \in 1..Len(intervals) :
                        /\ \A j \in 1..Len(intervals) : diff(i) <= diff(j)
                        /\ \A j \in 1..(i - 1) : diff(j) > diff(i)]

\* Math.round in place of Math.floor
bucketIndexOf_rounded(point, bucketSize, start) ==
    (2 * (point.t - start) + bucketSize) \div (2 * bucketSize)

bucketIndexOf(point, bucketSize, start) == (point.t - start) \div bucketSize

\* the Map of bucket index to the bucket's points, in input order
bucketPoints(points, bucketSize, start) ==
    [ b \in { bucketIndexOf(points[i], bucketSize, start) : i \in 1..Len(points) } |->
        SelectSeq(points, LAMBDA pt : bucketIndexOf(pt, bucketSize, start) = b) ]

\* |(y - mean) / std| > threshold, with n * n * variance = n * sum(y*y) - sum(y)^2
detectOutliersZScore(points, threshold) ==
    LET n == Len(points)
        total == SumSeq(Ys(points))
        squares == SumSeq([ i \in 1..n |-> points[i].y * points[i].y ])
        nnVariance == n * squares - total * total
    IN IF n < 3 \/ nnVariance = 0 THEN << >>
       ELSE SelectSeq(points, LAMBDA pt :
                (n * pt.y - total) * (n * pt.y - total)
                    > threshold * threshold * nnVariance)

sorted(q) == SortSeq(q, LAMBDA a, b : a < b)

detectOutliersIQR(points) ==
    LET n == Len(points)
        values == sorted(Ys(points))
        q1 == values[(n \div 4) + 1]
        q3 == values[((n * 3) \div 4) + 1]
        iqr == q3 - q1
    IN IF n < 4 THEN << >>
       ELSE SelectSeq(points, LAMBDA pt :
                2 * pt.y < 2 * q1 - 3 * iqr \/ 2 * pt.y > 2 * q3 + 3 * iqr)

detectOutliersMAD(points, threshold) ==
    LET n == Len(points)
        values == sorted(Ys(points))
        median == values[(n \div 2) + 1]
        deviations == sorted([ i \in 1..n |-> Abs(values[i] - median) ])
        mad == deviations[(n \div 2) + 1]
    IN IF n < 3 THEN << >>
       ELSE IF mad = 0 THEN << >>
       ELSE SelectSeq(points, LAMBDA pt : Abs(pt.y - median) > threshold * mad)

detectOutliers(points, config) ==
    IF ~config.preserveOutliers \/ Len(points) < 3 THEN << >>
    ELSE IF config.outlierMethod = "iqr" THEN detectOutliersIQR(points)
    ELSE IF config.outlierMethod = "mad" THEN detectOutliersMAD(points, config.outlierThreshold)
    ELSE detectOutliersZScore(points, config.outlierThreshold)

\* a representative is either one of the points or the bucket's average, placed
\* at the middle of the bucket (kept as twice the time, with the sum and count)
PointRep(pt) == [ isPoint |-> TRUE, t2 |-> 2 * pt.t, num |-> pt.y, den |-> 1 ]
AverageRep(midTime2, sum, count) ==
    [ isPoint |-> FALSE, t2 |-> midTime2, num |-> sum, den |-> count ]

\* reduce keeping the first of the outliers farthest from the average
RECURSIVE mostExtreme(_, _, _, _)
mostExtreme(q, extreme, sum, count) ==
    IF q = << >> THEN extreme
    ELSE mostExtreme(Tail(q),
                     IF Abs(Head(q).y * count - sum) > Abs(extreme.y * count - sum)
                     THEN Head(q) ELSE extreme,
                     sum, count)

firstWithY(q, y) == q[CHOOSE i \in 1..Len(q) : q[i].y = y /\ \A j \in 1..(i - 1) : q[j].y # y]

createBucketSummary(pts, bucketIndex, bucketSize, startTime, outliers, config) ==
    LET values == Ys(pts)
        min == MinOf(values)
        max == MaxOf(values)
        sum == SumSeq(values)
        count == Len(pts)
        bucketStart == startTime + bucketIndex * bucketSize
        bucketEnd == bucketStart + bucketSize
        average == AverageRep(2 * bucketStart + bucketSize, sum, count)
        bucketOutliers == SelectSeq(outliers, LAMBDA o : o.t >= bucketStart /\ o.t < bucketEnd)
        range == max - min
        representative ==
            IF ~config.preserveMinMax THEN average
            ELSE IF bucketOutliers # << >>
            THEN PointRep(mostExtreme(Tail(bucketOutliers), Head(bucketOutliers), sum, count))
            ELSE IF range > 0 /\ 10 * (sum - min * count) > 7 * range * count
            THEN PointRep(firstWithY(pts, max))
            ELSE IF range > 0 /\ 10 * (max * count - sum) > 7 * range * count
            THEN PointRep(firstWithY(pts, min))
            ELSE average
    IN [ startTime |-> bucketStart, endTime |-> bucketEnd, min |-> min, max |-> max,
         sum |-> sum, count |-> count, outliers |-> << >>,
         representative |-> representative ]

\* compressionRatio = totalPoints / sampledPoints against 100, 50, 10, 2
levelOf(totalPoints, sampledPoints) ==
    IF totalPoints >= 100 * sampledPoints THEN 0
    ELSE IF totalPoints >= 50 * sampledPoints THEN 1
    ELSE IF totalPoints >= 10 * sampledPoints THEN 2
    ELSE IF totalPoints >= 2 * sampledPoints THEN 3
    ELSE 4

\* allOutliers.slice(0, floor(length * (maxOutlierPercentage / 100)))
capOutliers(allOutliers, length, config) ==
    SubSeq(allOutliers, 1,
           IF (length * config.maxOutlierPercentage) \div 100 < Len(allOutliers)
           THEN (length * config.maxOutlierPercentage) \div 100
           ELSE Len(allOutliers))

\* Array.from(keys): the keys in some order, sorted afterwards
RECURSIVE SetToSeqAny(_)
SetToSeqAny(S) ==
    IF S = {} THEN << >>
    ELSE LET x == CHOOSE y \in S : TRUE IN <<x>> \o SetToSeqAny(S \ {x})

\* a quotient kept exact, as numerator and denominator
Ratio(num, den) == [ num |-> num, den |-> den ]

\* 'points.length < targetPoints' in place of 'points.length <= targetPoints'
noDownsamplingNeeded_short(points, targetPoints) == Len(points) < targetPoints

noDownsamplingNeeded(points, targetPoints) == Len(points) <= targetPoints

\* applyLOD(points, targetPoints, undefined, config): the time range is that of the points
applyLOD(points, targetPoints, config) ==
    IF noDownsamplingNeeded(points, targetPoints)
    THEN [ buckets |-> [ i \in 1..Len(points) |->
                           [ startTime |-> points[i].t, endTime |-> points[i].t,
                             min |-> points[i].y, max |-> points[i].y,
                             sum |-> points[i].y, count |-> 1, outliers |-> << >>,
                             representative |-> PointRep(points[i]) ] ],
           totalPoints |-> Len(points), sampledPoints |-> Len(points),
           compressionRatio |-> Ratio(1, 1), level |-> 4, outlierCount |-> 0 ]
    ELSE LET times == [ i \in 1..Len(points) |-> points[i].t ]
             start == MinOf(times)
             bucketSize == calculateBucketSize(start, MaxOf(times), targetPoints)
             buckets == bucketPoints(points, bucketSize, start)
             cappedOutliers == capOutliers(detectOutliers(points, config), Len(points), config)
             sortedIndices == sorted(SetToSeqAny(DOMAIN buckets))
             summaries == [ k \in 1..Len(sortedIndices) |->
                              createBucketSummary(buckets[sortedIndices[k]], sortedIndices[k],
                                                  bucketSize, start, cappedOutliers, config) ]
         IN [ buckets |-> summaries,
              totalPoints |-> Len(points), sampledPoints |-> Len(summaries),
              compressionRatio |-> Ratio(Len(points), Len(summaries)),
              level |-> levelOf(Len(points), Len(summaries)),
              outlierCount |-> Len(cappedOutliers) ]


\* ------------------------------------------------------------------ dispatcher.ts
\* One kind of request is followed, so the cache holds at most its response.
\* A mode's run is an input: "ok", "throws", or for the worker pool "invalid",
\* a resolved value that validateAnalyticsResponse turns down.
PipelineMode == <<"wasm", "worker-js", "main-js">>

DEFAULT_DISPATCHER_CONFIG ==
    [ enableWorkerPipeline |-> TRUE, enableWasmAggregation |-> TRUE, cacheEnabled |-> TRUE ]

NoResponse == [ success |-> FALSE, pipelineMode |-> None, code |-> None ]

\* no execute call yet
NoExecution ==
    [ phase |-> "idle", valid |-> TRUE, preferred |-> None, modes |-> << >>, i |-> 0,
      tried |-> << >>, settled |-> None, response |-> NoResponse, cacheHit |-> FALSE ]

\* new PipelineDispatcher(config); initialize() has not finished
NewDispatcher(config, isClient) ==
    [ config |-> config,
      flags |-> [ enableWorkerPipeline |-> TRUE, enableWasmAggregation |-> TRUE,
                  forceMode |-> None ],
      isClient |-> isClient,
      initialized |-> FALSE,
      workerPoolReady |-> FALSE,
      wasmReady |-> FALSE,
      cached |-> NoResponse,
      exec |-> NoExecution ]

\* { ...base, ...partial }
Spread(base, partial) ==
    [ k \in DOMAIN base |-> IF k \in DOMAIN partial THEN partial[k] ELSE base[k] ]

\* initialize(): the pool and the adapter come up (workersUp, wasmUp) or their
\* initialization throws, which is caught and logged
PipelineDispatcher_initialize(d, workersUp, wasmUp) ==
    IF ~d.isClient THEN d
    ELSE [d EXCEPT !.initialized = TRUE,
                   !.workerPoolReady = d.config.enableWorkerPipeline
                                          /\ d.flags.enableWorkerPipeline /\ workersUp,
                   !.wasmReady = d.config.enableWasmAggregation
                                    /\ d.flags.enableWasmAggregation /\ wasmUp]

setFeatureFlags(d, flags) == [d EXCEPT !.flags = Spread(@, flags)]

\* supported: canUseWasmForRequest(request); large: dataset.points.length > 1000
determinePipelineMode(d, supported, large) ==
    IF d.flags.forceMode # None THEN d.flags.forceMode
    ELSE IF d.flags.enableWasmAggregation /\ d.wasmReady /\ supported THEN "wasm"
    ELSE IF d.flags.enableWorkerPipeline /\ d.workerPoolReady /\ large THEN "worker-js"
    ELSE "main-js"

\* the chain with worker-js left out after wasm
getFallbackChain_skipWorker(preferredMode) ==
    IF preferredMode = "wasm" THEN <<"wasm", "main-js">>
    ELSE IF preferredMode = "worker-js" THEN <<"worker-js", "main-js">>
    ELSE <<preferredMode>>

getFallbackChain(preferredMode) ==
    IF preferredMode = "wasm" THEN <<"wasm", "worker-js", "main-js">>
    ELSE IF preferredMode = "worker-js" THEN <<"worker-js", "main-js">>
    ELSE <<preferredMode>>

createErrorResponse(code, mode) == [ success |-> FALSE, pipelineMode |-> mode, code |-> code ]

SuccessResponse(mode) == [ success |-> TRUE, pipelineMode |-> mode, code |-> None ]

\* executeWasm, executeWorker, executeMainThread: whether the mode's run throws
modeThrows(d, mode, run) ==
    CASE mode = "wasm" -> ~d.wasmReady \/ run # "ok"
      [] mode = "worker-js" -> ~d.workerPoolReady \/ run # "ok"
      [] mode = "main-js" -> run # "ok"

\* execute after the awaited executeWithFallback settled: thrown says whether it
\* rejected; a successful response is cached and the response is returned
executeReturns(d, thrown, response) ==
    LET returned == IF thrown THEN createErrorResponse("COMPUTATION_ERROR", "main-js")
                    ELSE response
    IN [d EXCEPT !.cached = IF returned.success /\ d.config.cacheEnabled THEN returned ELSE @,
                 !.exec.phase = "settled",
                 !.exec.settled = "resolved",
                 !.exec.response = returned]

\* execute(request, dataset) up to its first await: validation, the cache, the
\* preferred mode and its chain
PipelineDispatcher_execute(d, valid, supported, large) ==
    LET fresh == [NoExecution EXCEPT !.valid = valid]
        mode == determinePipelineMode(d, supported, large)
    IN IF ~valid
       THEN [d EXCEPT !.exec = [fresh EXCEPT !.phase = "settled", !.settled = "resolved",
                                   !.response = createErrorResponse("INVALID_REQUEST", "main-js")]]
       ELSE IF d.config.cacheEnabled /\ d.cached # NoResponse
       THEN [d EXCEPT !.exec = [fresh EXCEPT !.phase = "settled", !.settled = "resolved",
                                   !.response = d.cached, !.cacheHit = TRUE]]
       ELSE [d EXCEPT !.exec = [fresh EXCEPT !.phase = "running", !.preferred = mode,
                                   !.modes = getFallbackChain(mode), !.i = 1]]

\* one turn of executeWithFallback's loop, for a run of modes[i], and what
\* follows it in execute when the loop returns or throws
executeWithFallback(d, run) ==
    LET mode == d.exec.modes[d.exec.i]
        thrown == modeThrows(d, mode, run)
        d1 == [d EXCEPT !.exec.tried = Append(@, [mode |-> mode, failed |-> thrown])]
    IN IF ~thrown THEN executeReturns(d1, FALSE, SuccessResponse(mode))
       ELSE IF d.exec.i = Len(d.exec.modes) THEN executeReturns(d1, TRUE, NoResponse)
       ELSE [d1 EXCEPT !.exec.i = @ + 1]

\* ------------------------------------------------------------------ worker-pool.ts
\* Jobs are numbered in submission order. A worker wrapper is [busy,
\* currentJobId]; threads[i] is the job the Worker behind wrapper i is computing,
\* timers the pending job timeouts, promises what became of each execute call,
\* posted the EXECUTE messages in the order sent, reported the RESULT and ERROR
\* messages the workers sent back.
poolSize == 2

\* currentJobId = null
NoJob == 0

NewPool ==
    [ workers |-> << >>, queue |-> << >>, isInitialized |-> FALSE, jobsCompleted |-> 0,
      threads |-> << >>, timers |-> {}, promises |-> << >>, posted |-> << >>,
      reported |-> {} ]

IdleWorker == [ busy |-> FALSE, currentJobId |-> NoJob ]

WorkerPool_initialize(p) ==
    IF p.isInitialized THEN p
    ELSE [p EXCEPT !.workers = [ i \in 1..poolSize |-> IdleWorker ],
                   !.threads = [ i \in 1..poolSize |-> NoJob ],
                   !.isInitialized = TRUE]

\* the first wrapper that is not busy takes the head of the queue: EXECUTE is
\* posted to its Worker and the job's timeout is set
processQueue(p) ==
    LET free == { i \in 1..Len(p.workers) : ~p.workers[i].busy }
        availableWorker == CHOOSE i \in free : \A j \in free : i <= j
        job == Head(p.queue)
    IN IF free = {} \/ p.queue = << >> THEN p
       ELSE [p EXCEPT !.queue = Tail(@),
                      !.workers[availableWorker] = [ busy |-> TRUE, currentJobId |-> job ],
                      !.threads[availableWorker] = job,
                      !.posted = Append(@, [ worker |-> availableWorker, job |-> job ]),
                      !.timers = @ \cup { [ worker |-> availableWorker, job |-> job ] }]

\* execute(request, dataset): a new promise, the job queued, the queue processed
WorkerPool_execute(p) ==
    processQueue([p EXCEPT !.queue = Append(@, Len(p.promises) + 1),
                           !.promises = Append(@, "pending")])

\* a promise settles once: resolve and reject do nothing to a settled one
settle(p, job, how) ==
    [p EXCEPT !.promises[job] = IF @ = "pending" THEN how ELSE @]

\* the job as findJob returns it: { id: jobId } when a wrapper has it as its
\* current job, without resolve, reject, timeoutId or cancelled; undefined
\* (the id NoJob) otherwise
findJob(p, jobId) ==
    [ id |-> IF \E i \in 1..Len(p.workers) : p.workers[i].currentJobId = jobId
             THEN jobId ELSE NoJob,
      resolve |-> None, reject |-> None, timeoutId |-> None, cancelled |-> FALSE ]

cleanupWorker(p, worker) == [p EXCEPT !.workers[worker] = IdleWorker]

\* calling job.resolve when it is undefined raises a TypeError: the handler
\* ends there, after the statistics and before cleanupWorker and processQueue
handleResult(p, worker, jobId) ==
    LET job == findJob(p, jobId)
        cleared == IF job.timeoutId = None THEN p
                   ELSE [p EXCEPT !.timers = { tm \in @ : tm.job # jobId }]
        counted == [cleared EXCEPT !.jobsCompleted = @ + 1]
    IN IF job.id = NoJob \/ job.cancelled THEN cleanupWorker(p, worker)
       ELSE IF job.resolve = None THEN counted
       ELSE processQueue(cleanupWorker(settle(counted, jobId, "resolved"), worker))

\* calling job.reject when it is undefined raises a TypeError in the same way
handleError(p, worker, jobId) ==
    LET job == findJob(p, jobId)
        cleared == IF job.timeoutId = None THEN p
                   ELSE [p EXCEPT !.timers = { tm \in @ : tm.job # jobId }]
    IN IF job.id = NoJob \/ job.cancelled THEN cleanupWorker(p, worker)
       ELSE IF job.reject = None THEN cleared
       ELSE processQueue(cleanupWorker(settle(cleared, jobId, "rejected: error"), worker))

\* the Worker behind a wrapper posts RESULT or ERROR for the job it computed
handleMessage(p, worker, type) ==
    LET done == [p EXCEPT !.threads[worker] = NoJob]
    IN IF type = "RESULT" THEN handleResult(done, worker, p.threads[worker])
       ELSE IF type = "ERROR" THEN handleError(done, worker, p.threads[worker])
       ELSE p

\* the timeout holds the job itself: its promise is rejected, the Worker is
\* terminated and a fresh wrapper takes its place
handleJobTimeout(p, timer) ==
    processQueue([settle(p, timer.job, "rejected: timeout")
                    EXCEPT !.timers = @ \ {timer},
                           !.workers[timer.worker] = IdleWorker,
                           !.threads[timer.worker] = NoJob])

\* ------------------------------------------------------------------ inputs
\* a dataset with its render context: total points, context.width, context.height
\* and the margin on each side
Dataset(points, width, height, margin) ==
    [ given |-> TRUE, points |-> points, width |-> width, height |-> height,
      margin |-> margin ]

NoData == [ given |-> FALSE, points |-> 0, width |-> 0, height |-> 0, margin |-> 0 ]

SmallData == Dataset(1000, 800, 400, 20)
MediumData == Dataset(6000, 800, 400, 20)
LargeData == Dataset(60000, 800, 400, 20)
Datasets == {SmallData, MediumData, LargeData}
\* the dataset the lifecycle specification renders (it evaluates all of Datasets)
RenderData == {MediumData}

\* frame times in ms: within both budgets, over both budgets
FastFrame == 10
SlowFrame == 50
FrameTimes == {FastFrame, SlowFrame}

\* an idle period long enough to empty the 1000 ms window
IdleMs == DefaultWindowMs + 1

Handlers == {"h1"}

NoCall == Entry(None, None, None, None, None, {})

\* ------------------------------------------------------------------ observation
\* calls of a renderer's render, whether they return or throw
RenderCalls(tr) == { i \in 1..Len(tr) : tr[i].type \in {"render", "renderThrows"} }
Switches(tr) == { i \in 1..Len(tr) : tr[i].type = "tierSwitch" }
Last(S) == CHOOSE i \in S : \A j \in S : j <= i

\* the operations whose outcome the properties below look at
ObservedOps == {"render", "evaluateTierChange"}

Commit(op, w, data) ==
    /\ engine' = w.e
    /\ performanceHistory' = w.hist
    /\ now' = w.t
    /\ opTrace' = w.tr
    /\ lastOp' = IF op \in ObservedOps THEN op ELSE "other"
    /\ lastRender' = IF RenderCalls(w.tr) # {} THEN w.tr[Last(RenderCalls(w.tr))] ELSE lastRender
    /\ lastSwitchTo' = IF Switches(w.tr) # {} THEN w.tr[Last(Switches(w.tr))].to ELSE lastSwitchTo
    /\ lastData' = IF op \in ObservedOps THEN data ELSE NoData
    /\ UNCHANGED <<caps, idles, besideEngine>>

Here == World(engine, performanceHistory, now, << >>)

\* ------------------------------------------------------------------ engine operations
Render(data, frameTime, throws, max) ==
    /\ engine.frameCount < max
    /\ Commit("render", render(Here, data, frameTime, throws), data)

EvaluateTierChange(data) ==
    /\ data.given \in BOOLEAN
    /\ Commit("evaluateTierChange", evaluateTierChange(Here, data), data)

ForceSwitchTier(tier) ==
    /\ tier \in RendererTier
    /\ Commit("forceSwitchTier", forceSwitchTier(Here, tier), NoData)

RegisterRenderer(r) ==
    /\ ~engine.isDestroyed
    /\ Commit("registerRenderer", [Here EXCEPT !.e = registerRenderer(engine, tierOf(r), r)], NoData)

UnregisterRenderer(tier) ==
    /\ engine.renderers[tier] # None
    /\ Commit("unregisterRenderer", unregisterRenderer(Here, tier), NoData)

OnEvent(h) ==
    /\ h \notin engine.eventHandlers
    /\ ~engine.isDestroyed
    /\ Commit("onEvent", [Here EXCEPT !.e = onEvent(engine, h)], NoData)

OffEvent(h) ==
    /\ h \in engine.eventHandlers
    /\ Commit("offEvent", [Here EXCEPT !.e = offEvent(engine, h)], NoData)

Destroy ==
    /\ ~engine.isDestroyed
    /\ Commit("destroy", [Here EXCEPT !.e = destroy(engine)], NoData)

\* time passes with nothing rendered
Idle ==
    /\ idles < MaxIdles
    /\ now' = now + IdleMs
    /\ idles' = idles + 1
    /\ lastOp' = "other"
    /\ opTrace' = << >>
    /\ lastData' = NoData
    /\ UNCHANGED <<engine, performanceHistory, caps, lastRender, lastSwitchTo, besideEngine>>

\* ------------------------------------------------------------------ lifecycle specification
\* svg is supported wherever the engine runs in a browser
CapabilitySets == { {SVG}, {SVG, CANVAS}, {SVG, CANVAS, WEBGL} }

DefaultOverride ==
    [ forceRenderer |-> None, autoDegrade |-> TRUE,
      degradeFrameThreshold |-> DefaultDegradeFrameThreshold ]

InitGhosts ==
    /\ performanceHistory = << >>
    /\ now = 0
    /\ opTrace = << >>
    /\ lastRender = NoCall
    /\ lastSwitchTo = None
    /\ lastData = NoData
    /\ lastOp = "new"
    /\ idles = 0

NoTierInput == [ data |-> NoData, thresholds |-> DEFAULT_THRESHOLDS ]

\* tier detection not in use
IdleTier ==
    /\ tierInput = NoTierInput
    /\ tierResult = None

NoSurfaces == [ r \in RendererTier |-> renderKeep(<< >>) ]
NoQuery == [ x |-> 0, y |-> 0, radius |-> 0 ]
NoResults == [ r \in RendererTier |-> NoHit ]

NoRegion == [ x1 |-> 0, y1 |-> 0, x2 |-> 0, y2 |-> 0, asked |-> FALSE ]
NoRegionResults == [ r \in RendererTier |-> << >> ]

\* no region asked for
IdleRegion ==
    /\ regionQuery = NoRegion
    /\ regionResult = NoRegionResults

\* no chart on the renderers
IdleHit ==
    /\ hitData = << >>
    /\ surfaces = NoSurfaces
    /\ hitQuery = NoQuery
    /\ hitResult = NoResults
    /\ IdleRegion

\* no interaction bridge in use
IdleBridge ==
    /\ bridge = NewBridge
    /\ wallClock = 0
    /\ bridgeOp = "new"
    /\ attachLog = << >>

NoLodInput == [ points |-> << >>, targetPoints |-> 0, config |-> DEFAULT_LOD_CONFIG ]
\* applyLOD not called yet: no result, told apart from every result by its ratio
NoLodResult ==
    [ buckets |-> << >>, totalPoints |-> 0, sampledPoints |-> 0,
      compressionRatio |-> [ num |-> 0, den |-> 1 ], level |-> 4, outlierCount |-> 0 ]

\* no downsampling asked for
IdleLod ==
    /\ lodInput = NoLodInput
    /\ lodResult = NoLodResult

NoThresholdInput == PartialThresholds({}, 0, 0, 0, 0)
NotValidated ==
    [ svgToCanvas |-> 0, canvasToWebGL |-> 0, pointsPerPixelCanvas |-> 0,
      pointsPerPixelWebGL |-> 0, forceRenderer |-> None ]

\* no configuration being validated
IdleThresholds ==
    /\ thresholdInput = NoThresholdInput
    /\ validated = NotValidated

\* no dispatcher or worker pool at work
IdlePipeline ==
    /\ dispatcher = NewDispatcher(DEFAULT_DISPATCHER_CONFIG, FALSE)
    /\ pool = NewPool

IdleBesideEngine ==
    IdleTier /\ IdleHit /\ IdleBridge /\ IdleLod /\ IdleThresholds /\ IdlePipeline

InitEngine ==
    /\ caps \in CapabilitySets
    /\ engine = NewEngine(DefaultOverride)
    /\ InitGhosts
    /\ IdleBesideEngine

NextEngine ==
    \/ \E d \in RenderData, throws \in BOOLEAN : Render(d, FastFrame, throws, MaxRenders)
    \/ \E d \in Datasets \cup {NoData} : EvaluateTierChange(d)
    \/ \E t \in RendererTier : ForceSwitchTier(t)
    \/ \E r \in Renderers : RegisterRenderer(r)
    \/ \E t \in RendererTier : UnregisterRenderer(t)
    \/ \E h \in Handlers : OnEvent(h)
    \/ \E h \in Handlers : OffEvent(h)
    \/ Destroy

SpecEngine == InitEngine /\ [][NextEngine]_vars


\* ------------------------------------------------------------------ lifecycle properties
\* the tier of the surface the previous render call went to; before any render
\* the engine is on its initial tier
PrevRenderTier ==
    IF lastRender.renderer = None THEN createInitialState.currentTier
    ELSE tierOf(lastRender.renderer)

\* C6: every render call on a live engine with the svg renderer registered invokes
\* some renderer's render (no blank frame).
C6_NoBlankFrame ==
    (lastOp = "render" /\ ~engine.isDestroyed /\ engine.renderers[SVG] # None)
        => RenderCalls(opTrace) # {}

\* C9: whenever a render call goes to a surface of another tier than the previous
\* render call did, the latest tierSwitch event emitted before that call names
\* that tier and went to every subscribed handler.
C9_TierSwitchPrecedesRender ==
    [][ \A i \in RenderCalls(opTrace') :
          LET tier == tierOf(opTrace'[i].renderer)
              before == { j \in Switches(opTrace') : j < i }
          IN tier # PrevRenderTier =>
               IF before # {}
               THEN /\ opTrace'[Last(before)].to = tier
                    /\ opTrace'[Last(before)].handlers = engine.eventHandlers
               ELSE lastSwitchTo = tier ]_vars

\* a first render that goes to the canvas surface, after the switch was announced
\* to a subscriber
C9_Witness ==
    /\ lastOp = "render"
    /\ engine.frameCount = 1
    /\ RenderCalls(opTrace) # {}
    /\ tierOf(lastRender.renderer) = CANVAS
    /\ lastSwitchTo = CANVAS
    /\ engine.eventHandlers # {}

\* the first tier at or below t, in the order webgl, canvas, svg, that the device
\* supports and that has a renderer registered
UsableAtOrBelow(t) ==
    { i \in indexOf(t)..Len(tiers) :
        tiers[i] \in caps /\ engine.renderers[tiers[i]] # None }

\* C10: after a tier evaluation whose chosen tier is unsupported or unregistered,
\* the current tier is the first usable tier below it.
C10_FallbackWalksDown ==
    (lastOp = "evaluateTierChange" /\ lastData.given /\ ~engine.isDestroyed)
        => LET chosen == detectOptimalTier(
                   calculateDensityMetrics(lastData.points, lastData.width, lastData.height),
                   engine.config.thresholds)
               usable == UsableAtOrBelow(chosen)
           IN ((chosen \notin caps \/ engine.renderers[chosen] = None) /\ usable # {})
                 => engine.state.currentTier = tiers[CHOOSE i \in usable : \A j \in usable : i <= j]


\* ------------------------------------------------------------------ performance specification
\* an engine set up the usual way: every renderer registered, one subscriber
ReadyEngine(override) ==
    onEvent(
      registerRenderer(
        registerRenderer(
          registerRenderer(NewEngine(override), SVG, "svg1"),
          CANVAS, "canvas1"),
        WEBGL, "webgl1"),
      "h1")

\* degradeFrameThreshold as the auto-degrade scenario configures it
ScenarioThreshold == 3

PerfOverrides ==
    { [ forceRenderer |-> None, autoDegrade |-> a, degradeFrameThreshold |-> ScenarioThreshold ] :
        a \in BOOLEAN }

InitPerf ==
    /\ caps = RendererTier
    /\ engine \in { ReadyEngine(o) : o \in PerfOverrides }
    /\ InitGhosts
    /\ IdleBesideEngine

NextPerf ==
    \/ \E ft \in FrameTimes : Render(LargeData, ft, FALSE, MaxPerfRenders)
    \/ \E d \in {LargeData, SmallData, NoData} : EvaluateTierChange(d)
    \/ \E t \in RendererTier : ForceSwitchTier(t)
    \/ Idle

SpecPerf == InitPerf /\ [][NextPerf]_vars

\* long runs of slow frames of one large dataset
NextSustained ==
    \/ Render(LargeData, SlowFrame, FALSE, MaxSustainedRenders)
    \/ \E d \in {LargeData, NoData} : EvaluateTierChange(d)

SpecSustained == InitPerf /\ [][NextSustained]_vars

\* ------------------------------------------------------------------ performance properties
LowerTier(t) == tiers[indexOf(t) + 1]

\* the last n recorded frames
LastFrames(n) ==
    { i \in 1..Len(engine.frameMetrics) : i > Len(engine.frameMetrics) - n }

\* the render just made completed a run of exactly degradeFrameThreshold dropped
\* frames, all rendered on tier t
SlowRunOn(t) ==
    LET fm == engine.frameMetrics
        n == engine.config.degradeFrameThreshold
    IN /\ lastOp = "render"
       /\ Len(fm) >= n
       /\ \A i \in LastFrames(n) : fm[i].dropped /\ fm[i].tier = t
       /\ Len(fm) > n => ~fm[Len(fm) - n].dropped

\* C1: with auto-degrade on, a run of degradeFrameThreshold consecutive frames over
\* maxFrameTime leaves the engine one tier lower, with a tierSwitch event of
\* reason performance emitted.
C1_DegradeAfterSlowRun ==
    \A t \in {WEBGL, CANVAS} :
        (engine.config.autoDegrade /\ SlowRunOn(t))
            => /\ engine.state.currentTier = LowerTier(t)
               /\ \E i \in Switches(opTrace) :
                      /\ opTrace[i].reason = "performance"
                      /\ opTrace[i].from = t
                      /\ opTrace[i].to = LowerTier(t)

\* C2: every tierSwitch event with reason performance goes to a strictly lower tier.
C2_DegradeNeverStepsUp ==
    \A i \in Switches(opTrace) :
        opTrace[i].reason = "performance" => Rank(opTrace[i].to) < Rank(opTrace[i].from)

\* C16: with autoDegrade off, no tierSwitch event of reason performance is emitted,
\* whatever renders and tier evaluations are made.
C16_NoDegradeWhenDisabled ==
    ~engine.config.autoDegrade
        => \A i \in Switches(opTrace) : opTrace[i].reason # "performance"

\* ------------------------------------------------------------------ subscriber faults
\* subscribers come and go, one of them raising on every event
NextFault ==
    \/ \E h \in Handlers \cup ThrowingHandlers : OnEvent(h)
    \/ \E h \in Handlers \cup ThrowingHandlers : OffEvent(h)
    \/ \E ft \in FrameTimes : Render(LargeData, ft, FALSE, MaxPerfRenders)
    \/ \E d \in {LargeData, SmallData} : EvaluateTierChange(d)
    \/ \E t \in RendererTier : ForceSwitchTier(t)

SpecFault == InitPerf /\ [][NextFault]_vars

\* events of the engine's event types handed to the subscribers
Emitted(tr) ==
    { i \in 1..Len(tr) :
        tr[i].type \in {"tierSwitch", "lodChange", "performanceViolation", "error"} }

\* C17: when a handler raises on an event, the failure is reported as an event of
\* type error, every subscribed handler has still been handed the event, and the
\* operation completes (the tier switch it announced is in force).
C17_HandlerFaultReported ==
    \A i \in Emitted(opTrace) :
        opTrace[i].handlers \cap ThrowingHandlers # {}
            => /\ opTrace[i].handlers = engine.eventHandlers
               /\ \E j \in Emitted(opTrace) : j > i /\ opTrace[j].type = "error"
               /\ Switches(opTrace) # {}
                    => engine.state.currentTier = opTrace[Last(Switches(opTrace))].to

\* the part of C17 that is about delivery and completion only
C17_OthersStillReceive ==
    \A i \in Emitted(opTrace) :
        opTrace[i].handlers \cap ThrowingHandlers # {}
            => /\ opTrace[i].handlers = engine.eventHandlers
               /\ opTrace[i + 1].type = "console.error"
               /\ Switches(opTrace) # {}
                    => engine.state.currentTier = opTrace[Last(Switches(opTrace))].to

\* ------------------------------------------------------------------ cadence specification
\* long runs of fast frames: the dataset settles after the first renders and may
\* change again only on a frame on which the engine looks at the density
RenderSettled(d) ==
    /\ \/ engine.frameCount < CadenceWarmup
       \/ d.points = engine.state.dataDensity
       \/ (engine.frameCount + 1) % ReevaluateEvery = 0
    /\ Render(d, FastFrame, FALSE, MaxCadenceRenders)

InitCadence ==
    /\ caps = RendererTier
    /\ engine = ReadyEngine(DefaultOverride)
    /\ InitGhosts
    /\ IdleBesideEngine

NextCadence ==
    \/ \E d \in Datasets : RenderSettled(d)
    \/ EvaluateTierChange(NoData)

SpecCadence == InitCadence /\ [][NextCadence]_vars

\* ------------------------------------------------------------------ cadence properties
\* the last ReevaluateEvery recorded frames all rendered the dataset of the render
\* just made, none of them over the frame budget
SameDatasetRun ==
    LET fm == engine.frameMetrics
    IN /\ lastOp = "render"
       /\ Len(fm) >= ReevaluateEvery
       /\ \A i \in LastFrames(ReevaluateEvery) :
              fm[i].pointCount = lastData.points /\ ~fm[i].dropped

\* C8: after 30 renders of the same dataset, with every renderer registered and
\* supported and no performance violation, the current tier is the tier selected
\* for that dataset.
C8_ReevaluatedWithin30 ==
    ( /\ SameDatasetRun
      /\ engine.state.performanceViolations = 0
      /\ engine.config.thresholds.forceRenderer = None
      /\ \A t \in RendererTier : t \in caps /\ engine.renderers[t] # None )
        => engine.state.currentTier =
             detectOptimalTier(
               calculateDensityMetrics(lastData.points, lastData.width, lastData.height),
               engine.config.thresholds)

\* ------------------------------------------------------------------ tier selection specification
\* an engine nothing is done with
IdleEngine ==
    /\ caps = RendererTier
    /\ engine = NewEngine(DefaultOverride)
    /\ InitGhosts

\* point counts around the count thresholds of both presets
TierPoints == {0, 1000, 2000, 4999, 5000, 5001, 19999, 20000, 49999, 50000, 50001}

\* context sizes with their margin: an ordinary chart, small charts on which the
\* density thresholds are reached, and an empty one
TierContexts ==
    { <<800, 400, 20>>, <<20, 20, 5>>, <<10, 10, 0>>, <<6, 6, 1>>, <<0, 0, 0>> }

TierInputs ==
    { [ data |-> Dataset(p, c[1], c[2], c[3]), thresholds |-> th ] :
        p \in TierPoints, c \in TierContexts,
        th \in {DEFAULT_THRESHOLDS, MOBILE_THRESHOLDS} }

\* detectOptimalTier(calculateDensityMetrics(data, width, height), thresholds)
DetectOptimalTier ==
    /\ tierResult = None
    /\ tierResult' = detectOptimalTier(
                       calculateDensityMetrics(tierInput.data.points, tierInput.data.width,
                                               tierInput.data.height),
                       tierInput.thresholds)
    /\ UNCHANGED <<tierInput, engineVars, hitVars, bridgeVars, lodVars, thresholdVars, pipelineVars>>

InitTier ==
    /\ IdleEngine
    /\ IdleHit
    /\ IdleBridge
    /\ IdleLod
    /\ IdleThresholds
    /\ IdlePipeline
    /\ tierInput \in TierInputs
    /\ tierResult = None

NextTier == DetectOptimalTier

SpecTier == InitTier /\ [][NextTier]_vars

\* ------------------------------------------------------------------ tier selection properties
\* the selection rule as stated, over a plot area of the given number of pixels;
\* density thresholds are in tenths of a point per pixel
RuleTier(total, area, th) ==
    IF total >= th.canvasToWebGL THEN WEBGL
    ELSE IF total >= th.svgToCanvas THEN CANVAS
    ELSE IF area > 0 /\ total * 10 >= th.pointsPerPixelWebGL * area THEN WEBGL
    ELSE IF area > 0 /\ total * 10 >= th.pointsPerPixelCanvas * area THEN CANVAS
    ELSE SVG

ContextArea(d) == d.width * d.height
InnerArea(d) == (d.width - 2 * d.margin) * (d.height - 2 * d.margin)

\* the three stated examples, on the 800 x 400 chart under the default thresholds
DefaultExamples ==
    (tierInput.thresholds = DEFAULT_THRESHOLDS /\ ContextArea(tierInput.data) = 320000)
        => /\ tierInput.data.points = 4999 => tierResult = SVG
           /\ tierInput.data.points = 5001 => tierResult = CANVAS
           /\ tierInput.data.points = 50001 => tierResult = WEBGL

\* C7 (as stated): the selected tier follows the rule with points-per-pixel taken
\* over the inner plot area (width and height less the margins).
C7_TierRuleInnerArea ==
    tierResult # None
        => /\ tierResult = RuleTier(tierInput.data.points, InnerArea(tierInput.data),
                                    tierInput.thresholds)
           /\ DefaultExamples

\* C7 (amended): the selected tier follows the rule with points-per-pixel taken
\* over the whole context area width x height (0 when that area is 0); under the
\* default thresholds on an 800 x 400 chart 4,999 points select svg, 5,001 canvas
\* and 50,001 webgl.
C7_TierRule ==
    tierResult # None
        => /\ tierResult = RuleTier(tierInput.data.points, ContextArea(tierInput.data),
                                    tierInput.thresholds)
           /\ DefaultExamples

\* a dataset below both count thresholds that the density rule lifts to canvas, on a
\* chart whose inner area differs from its context area
C7_Witness ==
    /\ tierResult = CANVAS
    /\ tierInput.data.points < tierInput.thresholds.svgToCanvas
    /\ InnerArea(tierInput.data) # ContextArea(tierInput.data)

\* ------------------------------------------------------------------ hit-test specification
\* pixel positions: two either side of a cell border, one two cells away, one a
\* row below
HitPositions == { <<15, 10>>, <<25, 10>>, <<45, 10>>, <<15, 30>> }
HitSeries == {"a", "b"}
HitPoints == { [ series |-> sr, x |-> ps[1], y |-> ps[2] ] : sr \in HitSeries, ps \in HitPositions }
MaxHitPoints == 2

\* series data, flattened in series order; a series' points are contiguous
HitDatasets ==
    { d \in UNION { [1..n -> HitPoints] : n \in 0..MaxHitPoints } :
        \A i, j \in 1..Len(d) : (i < j /\ d[i].series = d[j].series)
            => \A k \in i..j : d[k].series = d[i].series }

\* queries in screen pixels (margin included), with the default radius and a wide one
HitQueries ==
    { [ x |-> qx + HitContext.margin, y |-> 10 + HitContext.margin, radius |-> r ] :
        qx \in {10, 20}, r \in {hitTestRadius, 40} }

\* renderer.render(data, context) on one surface
RenderSurface(r) ==
    /\ surfaces[r].currentData # hitData
    /\ surfaces' = [ surfaces EXCEPT ![r] =
                       IF r = CANVAS THEN CanvasRenderer_render(hitData)
                       ELSE renderKeep(hitData) ]
    /\ hitQuery' = NoQuery
    /\ hitResult' = NoResults
    /\ regionQuery' = NoRegion
    /\ regionResult' = NoRegionResults
    /\ UNCHANGED <<hitData, engineVars, tierVars, bridgeVars, lodVars, thresholdVars, pipelineVars>>

\* the same query put to every surface
HitTest(q) ==
    /\ hitQuery' = q
    /\ hitResult' = [ r \in RendererTier |->
                        IF r = SVG THEN SVGRenderer_hitTest(surfaces[r], q.x, q.y, q.radius)
                        ELSE IF r = CANVAS THEN CanvasRenderer_hitTest(surfaces[r], q.x, q.y, q.radius)
                        ELSE WebGLRenderer_hitTest(surfaces[r], q.x, q.y, q.radius) ]
    /\ UNCHANGED <<hitData, surfaces, regionQuery, regionResult,
                   engineVars, tierVars, bridgeVars, lodVars, thresholdVars, pipelineVars>>

InitHit ==
    /\ IdleEngine
    /\ IdleTier
    /\ IdleBridge
    /\ IdleLod
    /\ IdleThresholds
    /\ IdlePipeline
    /\ hitData \in HitDatasets
    /\ surfaces = NoSurfaces
    /\ hitQuery = NoQuery
    /\ hitResult = NoResults
    /\ IdleRegion

NextHit ==
    \/ \E r \in RendererTier : RenderSurface(r)
    \/ \E q \in HitQueries : HitTest(q)

SpecHit == InitHit /\ [][NextHit]_vars

\* ------------------------------------------------------------------ hit-test properties
\* C4: once every surface has rendered the dataset, a hit-test query returns the
\* same point (and series) on the svg, canvas and webgl surfaces, or none on all.
C4_HitTestAgrees ==
    (hitQuery # NoQuery /\ \A r \in RendererTier : surfaces[r].currentData = hitData)
        => \A r \in RendererTier :
               /\ hitResult[r].found = hitResult[SVG].found
               /\ hitResult[r].pt = hitResult[SVG].pt
               /\ hitResult[r].series = hitResult[SVG].series

SeriesRank(sr) == IF sr = "a" THEN 1 ELSE 2

\* the points of the chart in the 3 x 3 cells around the query and strictly
\* nearer to it than the radius
Candidates(q) ==
    LET qx == q.x - HitContext.margin
        qy == q.y - HitContext.margin
        cell == cellOf(qx, qy)
    IN { i \in 1..Len(hitData) :
           /\ Abs(cellOf(hitData[i].x, hitData[i].y)[1] - cell[1]) <= 1
           /\ Abs(cellOf(hitData[i].x, hitData[i].y)[2] - cell[2]) <= 1
           /\ Dist2(hitData[i].x, hitData[i].y, qx, qy) < q.radius * q.radius }

\* i comes before j: nearer, or as near and of the smaller series id, or of the
\* same series and the smaller index
Before27(q, i, j) ==
    LET qx == q.x - HitContext.margin
        qy == q.y - HitContext.margin
        di == Dist2(hitData[i].x, hitData[i].y, qx, qy)
        dj == Dist2(hitData[j].x, hitData[j].y, qx, qy)
    IN \/ di < dj
       \/ di = dj /\ SeriesRank(hitData[i].series) < SeriesRank(hitData[j].series)
       \/ di = dj /\ hitData[i].series = hitData[j].series /\ i <= j

\* C27: the canvas surface's nearest query returns the point of minimum distance
\* among those of the 3 x 3 cells around the query that are strictly nearer than
\* the radius, ties going to the smaller series id and then the smaller point
\* index, and none when there is no such point.
C27_NearestWithTieBreak ==
    (hitQuery # NoQuery /\ surfaces[CANVAS].currentData = hitData)
        => LET cand == Candidates(hitQuery)
           IN IF cand = {} THEN ~hitResult[CANVAS].found
              ELSE /\ hitResult[CANVAS].found
                   /\ hitResult[CANVAS].pt =
                        PointObject(hitData[CHOOSE i \in cand :
                                               \A j \in cand : Before27(hitQuery, i, j)])

\* the part of C27 without the tie-break: some point of minimum distance is returned
C27_NearestInNeighbourhood ==
    (hitQuery # NoQuery /\ surfaces[CANVAS].currentData = hitData)
        => LET cand == Candidates(hitQuery)
           IN IF cand = {} THEN ~hitResult[CANVAS].found
              ELSE /\ hitResult[CANVAS].found
                   /\ \E i \in cand :
                        /\ hitResult[CANVAS].pt = PointObject(hitData[i])
                        /\ \A j \in cand :
                               Dist2(hitData[i].x, hitData[i].y,
                                     hitQuery.x - HitContext.margin,
                                     hitQuery.y - HitContext.margin)
                                 <= Dist2(hitData[j].x, hitData[j].y,
                                          hitQuery.x - HitContext.margin,
                                          hitQuery.y - HitContext.margin)

\* ------------------------------------------------------------------ region specification
\* rectangles in screen pixels (margin included): one around the upper row, one
\* whose edges pass through points, one given from its lower right corner, one
\* over the whole chart
RegionQueries ==
    { [ x1 |-> 10, y1 |-> 10, x2 |-> 40, y2 |-> 30, asked |-> TRUE ],
      [ x1 |-> 25, y1 |-> 20, x2 |-> 35, y2 |-> 20, asked |-> TRUE ],
      [ x1 |-> 60, y1 |-> 45, x2 |-> 20, y2 |-> 15, asked |-> TRUE ],
      [ x1 |-> 10, y1 |-> 10, x2 |-> 110, y2 |-> 110, asked |-> TRUE ] }

\* the same rectangle put to every surface
RegionQuery(q) ==
    /\ regionQuery' = q
    /\ regionResult' =
         [ r \in RendererTier |->
             IF r = SVG THEN SVGRenderer_getPointsInRegion(surfaces[r], q.x1, q.y1, q.x2, q.y2)
             ELSE IF r = CANVAS
             THEN CanvasRenderer_getPointsInRegion(surfaces[r], q.x1, q.y1, q.x2, q.y2)
             ELSE WebGLRenderer_getPointsInRegion(surfaces[r], q.x1, q.y1, q.x2, q.y2) ]
    /\ UNCHANGED <<hitData, surfaces, hitQuery, hitResult,
                   engineVars, tierVars, bridgeVars, lodVars, thresholdVars, pipelineVars>>

NextRegion ==
    \/ \E r \in RendererTier : RenderSurface(r)
    \/ \E q \in RegionQueries : RegionQuery(q)

SpecRegion == InitHit /\ [][NextRegion]_vars

\* the chart's points whose pixel lies in the rectangle, bounds included, in
\* series order and then point order
InRectangle(q) ==
    PointObjects(SelectSeq(hitData, LAMBDA p :
        /\ p.x + HitContext.margin >= Min(q.x1, q.x2)
        /\ p.x + HitContext.margin <= Max(q.x1, q.x2)
        /\ p.y + HitContext.margin >= Min(q.y1, q.y2)
        /\ p.y + HitContext.margin <= Max(q.y1, q.y2)))

\* C28: once every surface has rendered the chart, a region query returns on each
\* surface exactly the points whose pixel lies in the rectangle (bounds included),
\* in series order and then point order.
C28_RegionExactOnEverySurface ==
    (regionQuery.asked /\ \A r \in RendererTier : surfaces[r].currentData = hitData)
        => \A r \in RendererTier : regionResult[r] = InRectangle(regionQuery)

\* the part of C28 that is about the svg surface
C28_SvgRegionExact ==
    (regionQuery.asked /\ surfaces[SVG].currentData = hitData)
        => regionResult[SVG] = InRectangle(regionQuery)

\* the part of C28 that is about the canvas surface, the order left aside
C28_CanvasRegionSamePoints ==
    (regionQuery.asked /\ surfaces[CANVAS].currentData = hitData)
        => /\ Len(regionResult[CANVAS]) = Len(InRectangle(regionQuery))
           /\ Members(regionResult[CANVAS]) = Members(InRectangle(regionQuery))

\* ------------------------------------------------------------------ interaction specification
\* the chart the bridge works on: two points of one series, drawn by every renderer
BridgeData == << [ series |-> "a", x |-> 15, y |-> 10 ], [ series |-> "a", x |-> 45, y |-> 10 ] >>

\* mouse positions in container pixels: on either point, and on neither
MousePositions == { <<25, 20>>, <<55, 20>>, <<90, 90>> }

Keys == {"Escape", "Enter", "ArrowLeft", "ArrowRight"}

MaxAttaches == 2
MaxElapses == 1

\* the bridge as an operation finds it: nothing invoked yet
Before == [ bridge EXCEPT !.invoked = {} ]

BridgeStep(op, b) ==
    /\ bridge' = b
    /\ bridgeOp' = op
    /\ UNCHANGED <<wallClock, engineVars, tierVars, hitVars, lodVars, thresholdVars, pipelineVars>>

\* bridge.attach(container, renderer, context) with the renderer of a tier
Attach(r) ==
    /\ Len(attachLog) < MaxAttaches
    /\ attachLog' = Append(attachLog, r)
    /\ BridgeStep("attach", attach(Before, r))

Detach ==
    /\ bridge.container
    /\ BridgeStep("detach", detach(Before))
    /\ UNCHANGED attachLog

\* DOM events reach the handlers while the listeners are on the container
MouseMove(ps) ==
    /\ bridge.container
    /\ BridgeStep("mousemove", handleMouseMove(Before, ps[1], ps[2]))
    /\ UNCHANGED attachLog

\* the debounced hover callback runs
FireHoverTimer ==
    /\ bridge.hoverTimer.pending
    /\ BridgeStep("hover",
                  performHitTest([ ran(Before, "hoverTimer") EXCEPT !.hoverTimer.pending = FALSE ],
                                 bridge.hoverTimer.x, bridge.hoverTimer.y))
    /\ UNCHANGED attachLog

MouseLeave ==
    /\ bridge.container
    /\ BridgeStep("mouseleave", handleMouseLeave(Before))
    /\ UNCHANGED attachLog

Click(ps) ==
    /\ bridge.container
    /\ BridgeStep("click", handleClick(Before, ps[1], ps[2], wallClock))
    /\ UNCHANGED attachLog

KeyDown(key) ==
    /\ bridge.container
    /\ BridgeStep("keydown", handleKeyDown(Before, key))
    /\ UNCHANGED attachLog

\* time passes: longer than the double-click threshold
Elapse ==
    /\ wallClock < MaxElapses * DEFAULT_INTERACTION_CONFIG.doubleClickThresholdMs
    /\ wallClock' = wallClock + DEFAULT_INTERACTION_CONFIG.doubleClickThresholdMs
    /\ bridgeOp' = "elapse"
    /\ bridge' = Before
    /\ UNCHANGED <<attachLog, engineVars, tierVars, hitVars, lodVars, thresholdVars, pipelineVars>>

InitBridge ==
    /\ IdleEngine
    /\ IdleTier
    /\ hitData = BridgeData
    /\ surfaces = [ r \in RendererTier |->
                      IF r = CANVAS THEN CanvasRenderer_render(BridgeData)
                      ELSE renderKeep(BridgeData) ]
    /\ hitQuery = NoQuery
    /\ hitResult = NoResults
    /\ IdleRegion
    /\ IdleBridge
    /\ IdleLod
    /\ IdleThresholds
    /\ IdlePipeline

NextBridge ==
    \/ \E r \in RendererTier : Attach(r)
    \/ Detach
    \/ \E ps \in MousePositions : MouseMove(ps)
    \/ FireHoverTimer
    \/ MouseLeave
    \/ \E ps \in MousePositions : Click(ps)
    \/ \E key \in Keys : KeyDown(key)
    \/ Elapse

SpecBridge == InitBridge /\ [][NextBridge]_vars

\* ------------------------------------------------------------------ interaction properties
\* C5: a tier transition (the bridge detached from the old renderer, then attached
\* to the new one) leaves the selection as it was.
C5_SelectionSurvivesTransition ==
    [][ bridgeOp' \in {"attach", "detach"} => bridge'.selection = bridge.selection ]_vars

\* a selection made on one renderer, with the bridge now attached to another
C5_Witness ==
    /\ bridgeOp = "attach"
    /\ Len(attachLog) >= 2
    /\ attachLog[Len(attachLog)] # attachLog[Len(attachLog) - 1]
    /\ bridge.renderer = attachLog[Len(attachLog)]
    /\ bridge.selection # << >>

\* C18: right after attach no hover point is set and no debounce timer scheduled
\* before the attach is still pending.
C18_AttachClearsHoverAndTimers ==
    bridgeOp = "attach"
        => /\ bridge.hoverPoint = NoPoint
           /\ ~bridge.hoverTimer.pending
           /\ ~bridge.zoomTimer.pending

\* the part of C18 that is about the timers only
C18_AttachDrainsTimers ==
    bridgeOp = "attach" => ~bridge.hoverTimer.pending /\ ~bridge.zoomTimer.pending

\* the position in the chart's data of a point object
IndexInData(pt) == CHOOSE i \in 1..Len(hitData) : PointObject(hitData[i]) = pt

\* the hovered point has a successor in its series
HasNext(pt) ==
    /\ IndexInData(pt) < Len(hitData)
    /\ hitData[IndexInData(pt) + 1].series = pt[3]

\* C25: with keyboard navigation on and a point hovered that has a successor in
\* its series, the right arrow key moves the hover to that successor.
C25_ArrowMovesHover ==
    [][ ( /\ bridgeOp' = "keydown"
          /\ bridge.config.enableKeyboardNavigation
          /\ bridge.hoverPoint # NoPoint
          /\ HasNext(bridge.hoverPoint)
          /\ bridge' = handleKeyDown(Before, "ArrowRight") )
            => bridge'.hoverPoint = PointObject(hitData[IndexInData(bridge.hoverPoint) + 1]) ]_vars

\* C26: Enter adds the hovered point to the selection unless nothing is hovered or
\* a point of its coordinates is selected already; Escape leaves the selection
\* empty; the selection never holds a point twice.
C26_EnterAddsEscapeClears ==
    [][ bridgeOp' = "keydown"
          => /\ bridge' = handleKeyDown(Before, "Enter")
                  => bridge'.selection =
                       IF bridge.hoverPoint = NoPoint
                          \/ bridge.hoverPoint \in { bridge.selection[i] :
                                                       i \in 1..Len(bridge.selection) }
                       THEN bridge.selection
                       ELSE Append(bridge.selection, bridge.hoverPoint)
             /\ bridge' = handleKeyDown(Before, "Escape") => bridge'.selection = << >>
             /\ \A i, j \in 1..Len(bridge'.selection) :
                    bridge'.selection[i] = bridge'.selection[j] => i = j ]_vars

\* ------------------------------------------------------------------ teardown specification
\* a bridge with every callback registered, used until it is destroyed
Subscribed ==
    registerCallback(registerCallback(registerCallback(registerCallback(registerCallback(
        NewBridge, "onHover"), "onClick"), "onSelection"), "onZoom"), "onTooltip")

WheelPositions == { <<25, 20>> }

Destroyed ==
    /\ attachLog # << >>
    /\ attachLog[Len(attachLog)] \in {"destroy", "destroyWithTimers"}

\* the client attaches only a bridge it has not destroyed
AttachLive(r) == ~Destroyed /\ Attach(r)

Wheel(ps) ==
    /\ bridge.container
    /\ BridgeStep("wheel", handleWheel(Before, ps[1], ps[2]))
    /\ UNCHANGED attachLog

\* the debounced zoom callback runs
FireZoomTimer ==
    /\ bridge.zoomTimer.pending
    /\ BridgeStep("zoom",
                  call([ ran(Before, "zoomTimer") EXCEPT !.zoomTimer.pending = FALSE ], "onZoom"))
    /\ UNCHANGED attachLog

DoubleClick ==
    /\ bridge.container
    /\ BridgeStep("dblclick", handleDoubleClick(Before))
    /\ UNCHANGED attachLog

\* bridge.clearSelection() called by the client, at any time
ClearSelection ==
    /\ bridge.selection # << >> \/ bridgeOp # "clearSelection"
    /\ BridgeStep("clearSelection", clearSelection(Before))
    /\ UNCHANGED attachLog

\* bridge.destroy(); the log notes whether a debounce timer was pending
DestroyBridge ==
    /\ ~Destroyed
    /\ attachLog' = Append(attachLog,
                           IF bridge.hoverTimer.pending \/ bridge.zoomTimer.pending
                           THEN "destroyWithTimers" ELSE "destroy")
    /\ BridgeStep("destroy", InteractionBridge_destroy(Before))

InitTeardown ==
    /\ IdleEngine
    /\ IdleTier
    /\ hitData = BridgeData
    /\ surfaces = [ r \in RendererTier |->
                      IF r = CANVAS THEN CanvasRenderer_render(BridgeData)
                      ELSE renderKeep(BridgeData) ]
    /\ hitQuery = NoQuery
    /\ hitResult = NoResults
    /\ IdleRegion
    /\ bridge = Subscribed
    /\ wallClock = 0
    /\ bridgeOp = "new"
    /\ attachLog = << >>
    /\ IdleLod
    /\ IdleThresholds
    /\ IdlePipeline

NextTeardown ==
    \/ \E r \in RendererTier : AttachLive(r)
    \/ \E ps \in MousePositions : MouseMove(ps)
    \/ FireHoverTimer
    \/ MouseLeave
    \/ \E ps \in MousePositions : Click(ps)
    \/ DoubleClick
    \/ \E ps \in WheelPositions : Wheel(ps)
    \/ FireZoomTimer
    \/ ClearSelection
    \/ DestroyBridge

SpecTeardown == InitTeardown /\ [][NextTeardown]_vars

\* ------------------------------------------------------------------ teardown properties
\* C19: once the bridge is destroyed no debounce timer fires, no hit test runs and
\* no callback is invoked.
C19_SilentAfterDestroy ==
    Destroyed => bridge.invoked = {}

\* the bridge was destroyed with a debounce timer pending, and the client has
\* called it since
C19_Witness ==
    /\ Destroyed
    /\ attachLog[Len(attachLog)] = "destroyWithTimers"
    /\ bridgeOp = "clearSelection"

\* C20: a mouse-leave clears the hover and invokes the hover callback, and the
\* hover is still empty after the step that follows unless that step is a
\* mouse-move.
C20_HoverStaysClearedAfterLeave ==
    [][ /\ bridgeOp' = "mouseleave"
            => bridge'.hoverPoint = NoPoint /\ "onHover" \in bridge'.invoked
        /\ (bridgeOp = "mouseleave" /\ bridgeOp' # "mousemove")
            => bridge'.hoverPoint = NoPoint ]_vars

\* the part of C20 that is about the mouse-leave step itself
C20_LeaveClearsHover ==
    bridgeOp = "mouseleave"
        => /\ bridge.hoverPoint = NoPoint
           /\ ~bridge.tooltipVisible
           /\ {"onHover", "onTooltip"} \subseteq bridge.invoked

\* C21: when the debounced hover query fires, the hover becomes the renderer's hit
\* for the timer's position, and the hover callback is invoked exactly when the
\* hovered point (series and point) differs from the one hovered before.
C21_HoverChangeNotifiedOnce ==
    [][ (bridgeOp' = "hover" /\ "hitTest" \in bridge'.invoked)
            => LET hit == rendererHitTest(bridge.renderer, bridge.hoverTimer.x,
                                          bridge.hoverTimer.y, bridge.config.hoverRadius)
               IN /\ bridge'.hoverPoint = hit.pt
                  /\ bridge'.hoverSeries = hit.series
                  /\ "onHover" \in bridge'.invoked
                       <=> <<bridge'.hoverSeries, bridge'.hoverPoint>>
                             # <<bridge.hoverSeries, bridge.hoverPoint>> ]_vars

\* the part of C21 that is about the hover state only
C21_HoverBecomesHit ==
    [][ (bridgeOp' = "hover" /\ "hitTest" \in bridge'.invoked)
            => LET hit == rendererHitTest(bridge.renderer, bridge.hoverTimer.x,
                                          bridge.hoverTimer.y, bridge.config.hoverRadius)
               IN bridge'.hoverPoint = hit.pt /\ bridge'.hoverSeries = hit.series ]_vars

\* ------------------------------------------------------------------ selection specification
\* two series with a point of equal coordinates each, and a point further along
SelectData ==
    << [ series |-> "a", x |-> 15, y |-> 10 ], [ series |-> "a", x |-> 45, y |-> 10 ],
       [ series |-> "b", x |-> 15, y |-> 10 ] >>

\* corners of brushed rectangles, in container pixels
BrushPositions == { <<10, 10>>, <<40, 40>>, <<70, 40>> }

\* the chart is attached once
AttachOnce(r) == attachLog = << >> /\ Attach(r)

\* the browser sends dblclick after the second click of a pair
DoubleClickAfterClick == bridgeOp = "click" /\ DoubleClick

StartBrush(ps) ==
    /\ BridgeStep("startBrush", startBrush(Before, ps[1], ps[2]))
    /\ UNCHANGED attachLog

UpdateBrush(ps) ==
    /\ BridgeStep("updateBrush", updateBrush(Before, ps[1], ps[2]))
    /\ UNCHANGED attachLog

EndBrush ==
    /\ bridge.isBrushing \/ bridgeOp # "endBrush"
    /\ BridgeStep("endBrush", endBrush(Before))
    /\ UNCHANGED attachLog

InitSelect ==
    /\ IdleEngine
    /\ IdleTier
    /\ hitData = SelectData
    /\ surfaces = [ r \in RendererTier |->
                      IF r = CANVAS THEN CanvasRenderer_render(SelectData)
                      ELSE renderKeep(SelectData) ]
    /\ hitQuery = NoQuery
    /\ hitResult = NoResults
    /\ IdleRegion
    /\ bridge = Subscribed
    /\ wallClock = 0
    /\ bridgeOp = "new"
    /\ attachLog = << >>
    /\ IdleLod
    /\ IdleThresholds
    /\ IdlePipeline

NextSelect ==
    \/ \E r \in RendererTier : AttachOnce(r)
    \/ \E ps \in MousePositions : Click(ps)
    \/ DoubleClickAfterClick
    \/ \E ps \in BrushPositions : StartBrush(ps)
    \/ \E ps \in BrushPositions : UpdateBrush(ps)
    \/ EndBrush
    \/ Elapse

SpecSelect == InitSelect /\ [][NextSelect]_vars

\* the same chart worked with the keyboard: points are brushed, clicked and
\* hovered, and keys pressed
NextKeys ==
    \/ \E r \in RendererTier : AttachOnce(r)
    \/ StartBrush(<<10, 10>>)
    \/ UpdateBrush(<<40, 40>>)
    \/ EndBrush
    \/ \E ps \in MousePositions : Click(ps)
    \/ \E ps \in MousePositions : MouseMove(ps)
    \/ FireHoverTimer
    \/ \E key \in Keys : KeyDown(key)

SpecKeys == InitSelect /\ [][NextKeys]_vars

\* ------------------------------------------------------------------ selection properties
\* the click just handled was taken as a single click: the renderer was asked
SingleClick == bridgeOp' = "click" /\ "hitTest" \in bridge'.invoked

\* the step is a click within doubleClickThresholdMs and 5 px of the last click:
\* the mouse positions lie further apart than 5 px, so it is a click where and
\* when the last click was
SecondClickAt ==
    /\ bridge.container /\ bridge.renderer # None
    /\ bridge.lastClick.set
    /\ wallClock - bridge.lastClick.time < bridge.config.doubleClickThresholdMs
    /\ bridge'.lastClick = bridge.lastClick

\* C22: a single click with a point within selectionRadius toggles that point's
\* membership of the selection (added if absent, removed if present) and leaves
\* every other member as it was; with no point in reach the selection is unchanged.
C22_ClickTogglesThatPoint ==
    [][ SingleClick
          => LET hit == rendererHitTest(bridge.renderer, bridge'.lastClick.x,
                                        bridge'.lastClick.y, bridge.config.selectionRadius)
             IN IF ~hit.found THEN bridge'.selection = bridge.selection
                ELSE IF hit.pt \in Members(bridge.selection)
                THEN bridge'.selection = SelectSeq(bridge.selection, LAMBDA p : p # hit.pt)
                ELSE bridge'.selection = Append(bridge.selection, hit.pt) ]_vars

\* C23: a click taken as the second click of a double-click leaves the selection
\* as it was, and the dblclick handler that follows resets the zoom through the
\* zoom callback, again leaving the selection as it was.
C23_DoubleClickKeepsSelection ==
    [][ /\ (SecondClickAt /\ bridgeOp' = "click")
            => /\ bridge'.selection = bridge.selection
               /\ "hitTest" \notin bridge'.invoked
        /\ bridgeOp' = "dblclick"
            => /\ bridge'.selection = bridge.selection
               /\ "onZoom" \in bridge'.invoked ]_vars

\* a second click swallowed: nothing was run for it, with the point the first
\* click selected still in the selection
C23_Witness ==
    /\ bridgeOp = "click"
    /\ bridge.renderer # None
    /\ bridge.invoked = {}
    /\ bridge.lastClick.set
    /\ bridge.selection # << >>

LodStepMs == 10
LongLen == 11
MaxShortLen == 4

Series(ys) == [ i \in 1..Len(ys) |-> [ t |-> (i - 1) * LodStepMs, y |-> ys[i] ] ]

LongSeries == { Series(ys) : ys \in [1..LongLen -> {0, 100}] }
ShortSeries == { Series(ys) : ys \in UNION { [1..n -> {0, 5, 10, 100}] : n \in 3..MaxShortLen } }

KeenConfigs ==
    { [ DEFAULT_LOD_CONFIG EXCEPT !.outlierThreshold = 1, !.maxOutlierPercentage = 50,
                                  !.outlierMethod = m ] : m \in {"zscore", "iqr", "mad"} }

LodInputs ==
    { [ points |-> pts, targetPoints |-> tp, config |-> DEFAULT_LOD_CONFIG ] :
        pts \in LongSeries, tp \in {2, LongLen} }
    \cup
    { [ points |-> pts, targetPoints |-> tp, config |-> c ] :
        pts \in ShortSeries, tp \in {1, 2}, c \in KeenConfigs }

ApplyLOD ==
    /\ lodResult = NoLodResult
    /\ lodResult' = applyLOD(lodInput.points, lodInput.targetPoints, lodInput.config)
    /\ UNCHANGED <<lodInput, engineVars, tierVars, hitVars, bridgeVars, thresholdVars, pipelineVars>>

InitLod ==
    /\ IdleEngine
    /\ IdleTier
    /\ IdleHit
    /\ IdleBridge
    /\ IdleThresholds
    /\ IdlePipeline
    /\ lodInput \in LodInputs
    /\ lodResult = NoLodResult

NextLod == ApplyLOD

SpecLod == InitLod /\ [][NextLod]_vars

\* ------------------------------------------------------------------ downsampling properties
\* the points the configured method flags, cut to the percentage cap
SurvivingOutliers ==
    capOutliers(detectOutliers(lodInput.points, lodInput.config),
                Len(lodInput.points), lodInput.config)

\* C3: every point that the configured method flags and that survives the cap is in
\* the outliers list of some bucket of the result.
C3_OutliersInSomeBucket ==
    lodResult # NoLodResult
        => \A i \in 1..Len(SurvivingOutliers) :
               \E k \in 1..Len(lodResult.buckets) :
                   \E j \in 1..Len(lodResult.buckets[k].outliers) :
                       lodResult.buckets[k].outliers[j] = SurvivingOutliers[i]

\* ------------------------------------------------------------------ forced-tier specification
\* engines constructed with thresholds.forceRenderer set
ForceOverrides ==
    { [ forceRenderer |-> f, autoDegrade |-> TRUE,
        degradeFrameThreshold |-> DefaultDegradeFrameThreshold ] : f \in RendererTier }

InitForce ==
    /\ caps \in CapabilitySets
    /\ engine \in { NewEngine(o) : o \in ForceOverrides }
    /\ InitGhosts
    /\ IdleBesideEngine

NextForce ==
    \/ Render(MediumData, SlowFrame, FALSE, MaxRenders)
    \/ \E d \in Datasets \cup {NoData} : EvaluateTierChange(d)
    \/ \E t \in RendererTier : ForceSwitchTier(t)
    \/ \E r \in Renderers : RegisterRenderer(r)
    \/ \E t \in RendererTier : UnregisterRenderer(t)
    \/ Destroy

SpecForce == InitForce /\ [][NextForce]_vars

\* ------------------------------------------------------------------ forced-tier properties
\* C11: with a forced tier whose renderer is registered and which the device
\* supports, a tier evaluation leaves the engine on that tier, whatever the data
\* and the frame times recorded.
C11_ForcedTierWins ==
    LET force == engine.config.thresholds.forceRenderer
    IN ( /\ lastOp = "evaluateTierChange"
         /\ force # None
         /\ engine.renderers[force] # None
         /\ force \in caps )
           => engine.state.currentTier = force

\* an evaluation of a small dataset after slow frames that put the engine on the
\* forced webgl tier
C11_Witness ==
    /\ lastOp = "evaluateTierChange"
    /\ engine.config.thresholds.forceRenderer = WEBGL
    /\ WEBGL \in caps
    /\ lastData = SmallData
    /\ engine.droppedFrames > 0
    /\ Switches(opTrace) # {}
    /\ engine.state.currentTier = WEBGL

\* ------------------------------------------------------------------ tier ordering specification
\* one viewport an ordinary chart, one a few pixels wide, each with growing point counts
SmallViewport == [ width |-> 6, height |-> 6, margin |-> 1 ]
LargeViewport == [ width |-> 800, height |-> 400, margin |-> 20 ]

OrderingData ==
    { Dataset(p, v.width, v.height, v.margin) :
        p \in {1000, 4999, 5000, 50000}, v \in {SmallViewport, LargeViewport} }

InitOrdering ==
    /\ caps = RendererTier
    /\ engine = ReadyEngine(DefaultOverride)
    /\ InitGhosts
    /\ IdleBesideEngine

NextOrdering ==
    \/ \E d \in OrderingData : EvaluateTierChange(d)
    \/ \E d \in OrderingData : Render(d, FastFrame, FALSE, MaxRenders)

SpecOrdering == InitOrdering /\ [][NextOrdering]_vars

\* ------------------------------------------------------------------ tier ordering properties
\* C12: under the default thresholds, an evaluation of a dataset with at least as
\* many points as the one of the operation before it, on the same viewport and with
\* no frame over budget, never leaves the engine on a lower tier.
C12_TierNeverDecreases ==
    [][ ( /\ lastOp' = "evaluateTierChange"
          /\ lastData.given
          /\ lastData'.points >= lastData.points
          /\ lastData'.width = lastData.width
          /\ lastData'.height = lastData.height
          /\ engine'.state.performanceViolations = 0 )
            => Rank(engine'.state.currentTier) >= Rank(engine.state.currentTier) ]_vars

\* ------------------------------------------------------------------ frame record properties
\* how many of the most recent recorded frames, counted back from the last, are dropped
RECURSIVE TrailingDropped(_)
TrailingDropped(fm) ==
    IF fm = << >> \/ ~fm[Len(fm)].dropped THEN 0
    ELSE 1 + TrailingDropped(SubSeq(fm, 1, Len(fm) - 1))

\* C13: after every recorded frame the violation counter is the number of
\* consecutive trailing dropped frames (so 0 after a frame within budget).
C13_CounterIsTrailingRun ==
    (lastOp = "render" /\ RenderCalls(opTrace) # {})
        => engine.state.performanceViolations = TrailingDropped(engine.frameMetrics)

\* the k-th recording of a run of FastFrame renders is stamped k * FastFrame
IsLatestWindow(ring, k, capacity) ==
    /\ Len(ring) = (IF k < capacity THEN k ELSE capacity)
    /\ \A i \in 1..Len(ring) : ring[i].timestamp = (k - Len(ring) + i) * FastFrame

\* C14: after k recorded frames the frame-metric ring (and the performance history)
\* holds min(k, 60) entries: the most recent ones, in recording order.
C14_RingHoldsLatest ==
    /\ IsLatestWindow(engine.frameMetrics, engine.frameCount, maxFrameMetrics)
    /\ IsLatestWindow(performanceHistory, engine.frameCount, MAX_HISTORY)

\* one recording more than the ring holds
C14_Witness ==
    /\ engine.frameCount = maxFrameMetrics + 1
    /\ Len(engine.frameMetrics) = maxFrameMetrics
    /\ engine.frameMetrics[1].timestamp = 2 * FastFrame
    /\ engine.frameMetrics[maxFrameMetrics].timestamp = (maxFrameMetrics + 1) * FastFrame

\* ------------------------------------------------------------------ threshold validation specification
\* counts below, at and above the floor of 100 and the defaults; densities in tenths
ThresholdCounts == {-5, 0, 50, 100, 5000, 60000}
ThresholdDensities == {0, 50}
ThresholdFields == {"svgToCanvas", "canvasToWebGL", "pointsPerPixelCanvas", "pointsPerPixelWebGL"}

\* an absent field carries 0
ThresholdInputs ==
    { c \in { PartialThresholds(g, s, w, dc, dw) :
                g \in SUBSET ThresholdFields, s \in ThresholdCounts, w \in ThresholdCounts,
                dc \in ThresholdDensities, dw \in ThresholdDensities } :
        \A f \in ThresholdFields \ c.given : c[f] = 0 }

ValidateThresholds ==
    /\ validated = NotValidated
    /\ validated' = validateThresholds(thresholdInput)
    /\ UNCHANGED <<thresholdInput, engineVars, tierVars, hitVars, bridgeVars, lodVars, pipelineVars>>

InitValidate ==
    /\ IdleEngine
    /\ IdleTier
    /\ IdleHit
    /\ IdleBridge
    /\ IdleLod
    /\ IdlePipeline
    /\ thresholdInput \in ThresholdInputs
    /\ validated = NotValidated

NextValidate == ValidateThresholds

SpecValidate == InitValidate /\ [][NextValidate]_vars

\* ------------------------------------------------------------------ threshold validation properties
\* C15: whatever configuration is handed in, the validated one has
\* svgToCanvas >= 100 and canvasToWebGL >= svgToCanvas.
C15_ValidatedOrdered ==
    validated # NotValidated
        => /\ validated.svgToCanvas >= 100
           /\ validated.canvasToWebGL >= validated.svgToCanvas

\* ------------------------------------------------------------------ bucket specification
\* short series of any spacing and order, times repeated or not
LooseTimes == {0, 3, 10, 25}
MaxLooseLen == 3

LooseSeries ==
    UNION { [1..n -> { [ t |-> t, y |-> y ] : t \in LooseTimes, y \in {0, 5} }] :
              n \in 1..MaxLooseLen }

InitBuckets ==
    /\ IdleEngine
    /\ IdleTier
    /\ IdleHit
    /\ IdleBridge
    /\ IdleThresholds
    /\ IdlePipeline
    /\ lodInput \in { [ points |-> pts, targetPoints |-> tp, config |-> DEFAULT_LOD_CONFIG ] :
                         pts \in LooseSeries, tp \in 1..MaxLooseLen }
    /\ lodResult = NoLodResult

SpecBuckets == InitBuckets /\ [][NextLod]_vars

\* ------------------------------------------------------------------ bucket properties
\* the input points bucket k stands for: the point itself when nothing was
\* downsampled, the points of its time span otherwise
Assigned(k) ==
    IF Len(lodInput.points) <= lodInput.targetPoints THEN {k}
    ELSE { i \in 1..Len(lodInput.points) :
             /\ lodInput.points[i].t >= lodResult.buckets[k].startTime
             /\ lodInput.points[i].t < lodResult.buckets[k].endTime }

\* C29: every bucket's min and max are the least and greatest y of the points
\* assigned to it, every input point is assigned to exactly one bucket, and the
\* global minimum and maximum y are the min and the max of some bucket.
C29_EnvelopeCoversPoints ==
    (lodResult # NoLodResult /\ lodInput.points # << >>)
        => LET pts == lodInput.points
               bs == lodResult.buckets
           IN /\ \A k \in 1..Len(bs) :
                     /\ Assigned(k) # {}
                     /\ bs[k].count = Cardinality(Assigned(k))
                     /\ \E i \in Assigned(k) : pts[i].y = bs[k].min
                     /\ \E i \in Assigned(k) : pts[i].y = bs[k].max
                     /\ \A i \in Assigned(k) : bs[k].min <= pts[i].y /\ pts[i].y <= bs[k].max
              /\ \A i \in 1..Len(pts) :
                     Cardinality({ k \in 1..Len(bs) : i \in Assigned(k) }) = 1
              /\ \E k \in 1..Len(bs) : bs[k].min = MinOf(Ys(pts))
              /\ \E k \in 1..Len(bs) : bs[k].max = MaxOf(Ys(pts))

\* a downsampled series with a bucket of several points of different y
C29_Witness ==
    /\ lodResult # NoLodResult
    /\ Len(lodResult.buckets) >= 2
    /\ Len(lodResult.buckets) < Len(lodInput.points)
    /\ \E k \in 1..Len(lodResult.buckets) :
           lodResult.buckets[k].count >= 2 /\ lodResult.buckets[k].min < lodResult.buckets[k].max

\* C30: every bucket has startTime < endTime, min <= avg <= max, count >= 1 and
\* its representative's time in [startTime, endTime); the buckets are in
\* ascending startTime order and do not overlap.
C30_BucketInvariants ==
    lodResult # NoLodResult
        => LET bs == lodResult.buckets
           IN /\ \A k \in 1..Len(bs) :
                     /\ bs[k].startTime < bs[k].endTime
                     /\ bs[k].min * bs[k].count <= bs[k].sum
                     /\ bs[k].sum <= bs[k].max * bs[k].count
                     /\ bs[k].count >= 1
                     /\ 2 * bs[k].startTime <= bs[k].representative.t2
                     /\ bs[k].representative.t2 < 2 * bs[k].endTime
              /\ \A k \in 1..(Len(bs) - 1) :
                     /\ bs[k].startTime < bs[k + 1].startTime
                     /\ bs[k].endTime <= bs[k + 1].startTime

\* C30 for the results that were downsampled
C30_DownsampledBucketInvariants ==
    (lodResult # NoLodResult /\ Len(lodInput.points) > lodInput.targetPoints)
        => LET bs == lodResult.buckets
           IN /\ \A k \in 1..Len(bs) :
                     /\ bs[k].startTime < bs[k].endTime
                     /\ bs[k].min * bs[k].count <= bs[k].sum
                     /\ bs[k].sum <= bs[k].max * bs[k].count
                     /\ bs[k].count >= 1
                     /\ 2 * bs[k].startTime <= bs[k].representative.t2
                     /\ bs[k].representative.t2 < 2 * bs[k].endTime
              /\ \A k \in 1..(Len(bs) - 1) :
                     /\ bs[k].startTime < bs[k + 1].startTime
                     /\ bs[k].endTime <= bs[k + 1].startTime

\* ------------------------------------------------------------------ outlier cap specification
\* evenly spaced series of five points under configs that flag readily and keep
\* at most a fifth of the points
CapLen == 5

CapConfigs ==
    { [ DEFAULT_LOD_CONFIG EXCEPT !.outlierThreshold = 1, !.maxOutlierPercentage = 20,
                                  !.outlierMethod = m ] : m \in {"zscore", "iqr", "mad"} }

InitCap ==
    /\ IdleEngine
    /\ IdleTier
    /\ IdleHit
    /\ IdleBridge
    /\ IdleThresholds
    /\ IdlePipeline
    /\ lodInput \in { [ points |-> Series(ys), targetPoints |-> tp, config |-> c ] :
                         ys \in [1..CapLen -> {0, 10, 100}], tp \in {1, 2}, c \in CapConfigs }
    /\ lodResult = NoLodResult

SpecCap == InitCap /\ [][NextLod]_vars

\* ------------------------------------------------------------------ outlier cap properties
\* what the configured method flags, before the cap
FlaggedOutliers == detectOutliers(lodInput.points, lodInput.config)

MaxOutliers == (Len(lodInput.points) * lodInput.config.maxOutlierPercentage) \div 100

\* how far a point lies from the centre its method measures from: the mean
\* (times n) for the z-score, the median for MAD, the nearer fence (times 2) for IQR
Severity(pt) ==
    LET pts == lodInput.points
        n == Len(pts)
        values == sorted(Ys(pts))
        q1 == values[(n \div 4) + 1]
        q3 == values[((n * 3) \div 4) + 1]
    IN IF lodInput.config.outlierMethod = "iqr"
       THEN Max(2 * q1 - 3 * (q3 - q1) - 2 * pt.y, 2 * pt.y - 2 * q3 - 3 * (q3 - q1))
       ELSE IF lodInput.config.outlierMethod = "mad"
       THEN Abs(pt.y - values[(n \div 2) + 1])
       ELSE Abs(n * pt.y - SumSeq(Ys(pts)))

Downsampled == lodResult # NoLodResult /\ Len(lodInput.points) > lodInput.targetPoints

\* C31: the outliers kept number at most floor(n * max_outlier_percent / 100),
\* and each outlier kept is more extreme than each outlier dropped, or equally
\* extreme and earlier in time.
C31_CapKeepsMostExtreme ==
    Downsampled
        => LET kept == SurvivingOutliers
               flagged == FlaggedOutliers
           IN /\ lodResult.outlierCount = Len(kept)
              /\ Len(kept) <= MaxOutliers
              /\ \A i \in 1..Len(kept) : \A j \in (Len(kept) + 1)..Len(flagged) :
                     \/ Severity(kept[i]) > Severity(flagged[j])
                     \/ Severity(kept[i]) = Severity(flagged[j]) /\ kept[i].t < flagged[j].t

\* C31, the count alone: the outliers kept are the first of those flagged, as
\* many as the cap allows
C31_CapBoundsCount ==
    Downsampled
        => /\ lodResult.outlierCount = Min(MaxOutliers, Len(FlaggedOutliers))
           /\ SurvivingOutliers = SubSeq(FlaggedOutliers, 1, lodResult.outlierCount)

\* ------------------------------------------------------------------ representative properties
\* the points of q that are earliest in time among those of q satisfying Test
Earliest(q, Test(_)) ==
    { q[i] : i \in { i \in 1..Len(q) :
                       Test(q[i]) /\ \A j \in 1..Len(q) : Test(q[j]) => q[i].t <= q[j].t } }

\* the selection rule for bucket k, over the input points and the capped
\* outliers of its time span; degenerate says what a bucket of equal min and
\* max is to give
FollowsRule(k, degenerate(_, _)) ==
    LET b == lodResult.buckets[k]
        InSpan(pt) == pt.t >= b.startTime /\ pt.t < b.endTime
        P == SelectSeq(lodInput.points, InSpan)
        O == SelectSeq(SurvivingOutliers, InSpan)
        away(pt) == Abs(pt.y * b.count - b.sum)
        range == b.max - b.min
        IsMax(pt) == pt.y = b.max
        IsMin(pt) == pt.y = b.min
        average == AverageRep(b.startTime + b.endTime, b.sum, b.count)
    IN IF O # << >>
       THEN \E i \in 1..Len(O) :
                /\ b.representative = PointRep(O[i])
                /\ \A j \in 1..Len(O) :
                       \/ away(O[i]) > away(O[j])
                       \/ away(O[i]) = away(O[j]) /\ O[i].t <= O[j].t
       ELSE IF range = 0 THEN degenerate(b.representative, P)
       ELSE IF 10 * (b.sum - b.min * b.count) > 7 * range * b.count
       THEN b.representative \in { PointRep(pt) : pt \in Earliest(P, IsMax) }
       ELSE IF 10 * (b.sum - b.min * b.count) < 3 * range * b.count
       THEN b.representative \in { PointRep(pt) : pt \in Earliest(P, IsMin) }
       ELSE b.representative = average

FirstByTime(rep, P) ==
    LET Whichever(pt) == TRUE IN rep \in { PointRep(pt) : pt \in Earliest(P, Whichever) }

MidpointAverage(rep, P) == ~rep.isPoint /\ rep.den = Len(P)

\* C32: in a downsampled result every bucket's representative is the most
\* extreme capped outlier of the bucket if there is one, otherwise the earliest
\* point at max for r > 0.7, the earliest point at min for r < 0.3, the average
\* at the bucket's midpoint for any other r, and the first point by time when
\* max = min.
C32_RepresentativeFollowsRule ==
    Downsampled => \A k \in 1..Len(lodResult.buckets) : FollowsRule(k, FirstByTime)

\* C32 with a bucket of equal min and max giving the average at its midpoint
C32_RuleButDegenerateAveraged ==
    Downsampled => \A k \in 1..Len(lodResult.buckets) : FollowsRule(k, MidpointAverage)

\* ------------------------------------------------------------------ edge specification
\* the empty series and short ones, with a target of no points or of one
InitEdge ==
    /\ IdleEngine
    /\ IdleTier
    /\ IdleHit
    /\ IdleBridge
    /\ IdleThresholds
    /\ IdlePipeline
    /\ lodInput \in { [ points |-> pts, targetPoints |-> tp, config |-> DEFAULT_LOD_CONFIG ] :
                         pts \in LooseSeries \cup { << >> }, tp \in {0, 1} }
    /\ lodResult = NoLodResult

SpecEdge == InitEdge /\ [][NextLod]_vars

\* ------------------------------------------------------------------ edge properties
\* C33: with a target of 0 or with no input points the result has no buckets
\* and level 4 (Full).
C33_EmptyResultForNoTargetOrInput ==
    (lodResult # NoLodResult /\ (lodInput.targetPoints = 0 \/ lodInput.points = << >>))
        => lodResult.buckets = << >> /\ lodResult.level = 4

\* C33 for no input points, whatever the target
C33_EmptyResultForNoInput ==
    (lodResult # NoLodResult /\ lodInput.points = << >>)
        => lodResult.buckets = << >> /\ lodResult.level = 4

\* ------------------------------------------------------------------ fast path properties
\* C34: with a target of at least the number of points, the result has one
\* bucket per point, in input order, whose representative is that point, and
\* sampledPoints = len, compressionRatio = 1 and level 4 (Full).
C34_OneBucketPerPoint ==
    (lodResult # NoLodResult /\ lodInput.targetPoints >= Len(lodInput.points))
        => /\ Len(lodResult.buckets) = Len(lodInput.points)
           /\ \A i \in 1..Len(lodInput.points) :
                  /\ lodResult.buckets[i].representative = PointRep(lodInput.points[i])
                  /\ lodResult.buckets[i].count = 1
           /\ lodResult.sampledPoints = Len(lodInput.points)
           /\ lodResult.compressionRatio.num = lodResult.compressionRatio.den
           /\ lodResult.level = 4

\* several points, not in time order, with a target of exactly their number
C34_Witness ==
    /\ lodResult # NoLodResult
    /\ Len(lodInput.points) >= 2
    /\ lodInput.targetPoints = Len(lodInput.points)
    /\ lodInput.points[1].t >= lodInput.points[2].t
    /\ Len(lodResult.buckets) = Len(lodInput.points)

\* ------------------------------------------------------------------ dispatcher specification
\* one dispatcher, in a browser or not, with the cache on or off; one execute
\* call at a time
FlagUpdates ==
    { [ forceMode |-> m ] : m \in { PipelineMode[k] : k \in 1..3 } \cup {None} }
    \cup { [ enableWasmAggregation |-> b ] : b \in BOOLEAN }
    \cup { [ enableWorkerPipeline |-> b ] : b \in BOOLEAN }

Runs(mode) == IF mode = "worker-js" THEN {"ok", "throws", "invalid"} ELSE {"ok", "throws"}

Initialize(workersUp, wasmUp) ==
    /\ ~dispatcher.initialized
    /\ dispatcher' = PipelineDispatcher_initialize(dispatcher, workersUp, wasmUp)
    /\ UNCHANGED <<pool, engineVars, tierVars, hitVars, bridgeVars, lodVars, thresholdVars>>

SetFeatureFlags(flags) ==
    /\ dispatcher' = setFeatureFlags(dispatcher, flags)
    /\ UNCHANGED <<pool, engineVars, tierVars, hitVars, bridgeVars, lodVars, thresholdVars>>

Execute(valid, supported, large) ==
    /\ dispatcher.exec.phase # "running"
    /\ dispatcher' = PipelineDispatcher_execute(dispatcher, valid, supported, large)
    /\ UNCHANGED <<pool, engineVars, tierVars, hitVars, bridgeVars, lodVars, thresholdVars>>

\* the awaited mode settles
ExecuteWithFallback(run) ==
    /\ dispatcher.exec.phase = "running"
    /\ run \in Runs(dispatcher.exec.modes[dispatcher.exec.i])
    /\ dispatcher' = executeWithFallback(dispatcher, run)
    /\ UNCHANGED <<pool, engineVars, tierVars, hitVars, bridgeVars, lodVars, thresholdVars>>

InitDispatch ==
    /\ IdleEngine
    /\ IdleTier
    /\ IdleHit
    /\ IdleBridge
    /\ IdleLod
    /\ IdleThresholds
    /\ pool = NewPool
    /\ dispatcher \in { NewDispatcher([DEFAULT_DISPATCHER_CONFIG EXCEPT !.cacheEnabled = c], b) :
                           c \in BOOLEAN, b \in BOOLEAN }

NextDispatch ==
    \/ \E workersUp \in BOOLEAN, wasmUp \in BOOLEAN : Initialize(workersUp, wasmUp)
    \/ \E flags \in FlagUpdates : SetFeatureFlags(flags)
    \/ \E valid \in BOOLEAN, supported \in BOOLEAN, large \in BOOLEAN :
           Execute(valid, supported, large)
    \/ \E run \in {"ok", "throws", "invalid"} : ExecuteWithFallback(run)

SpecDispatch == InitDispatch /\ [][NextDispatch]_vars

\* ------------------------------------------------------------------ dispatcher properties
ModeRank(mode) == CHOOSE k \in 1..3 : PipelineMode[k] = mode

MaxJobs == 4

PoolInitialize ==
    /\ ~pool.isInitialized
    /\ pool' = WorkerPool_initialize(pool)
    /\ UNCHANGED <<dispatcher, engineVars, tierVars, hitVars, bridgeVars, lodVars, thresholdVars>>

PoolExecute ==
    /\ Len(pool.promises) < MaxJobs
    /\ pool' = WorkerPool_execute(pool)
    /\ UNCHANGED <<dispatcher, engineVars, tierVars, hitVars, bridgeVars, lodVars, thresholdVars>>

WorkerPosts(worker, type) ==
    /\ worker \in 1..Len(pool.threads)
    /\ pool.threads[worker] # NoJob
    /\ pool' = [handleMessage(pool, worker, type) EXCEPT
                  !.reported = @ \cup { [ worker |-> worker, job |-> pool.threads[worker],
                                          type |-> type ] }]
    /\ UNCHANGED <<dispatcher, engineVars, tierVars, hitVars, bridgeVars, lodVars, thresholdVars>>

JobTimeout(timer) ==
    /\ timer \in pool.timers
    /\ pool' = handleJobTimeout(pool, timer)
    /\ UNCHANGED <<dispatcher, engineVars, tierVars, hitVars, bridgeVars, lodVars, thresholdVars>>

InitPool ==
    /\ IdleEngine
    /\ IdleTier
    /\ IdleHit
    /\ IdleBridge
    /\ IdleLod
    /\ IdleThresholds
    /\ IdlePipeline

NextPool ==
    \/ PoolInitialize
    \/ PoolExecute
    \/ \E worker \in 1..poolSize, type \in {"RESULT", "ERROR"} : WorkerPosts(worker, type)
    \/ \E timer \in pool.timers : JobTimeout(timer)

SpecPool == InitPool /\ [][NextPool]_vars

\* ------------------------------------------------------------------ worker pool properties
\* C36: once a worker has posted RESULT for the job it was running, the job's
\* promise is resolved, and it stays resolved whatever its timeout does.
C36_ResultResolvesPromise ==
    \A r \in pool.reported : r.type = "RESULT" => pool.promises[r.job] = "resolved"

\* nothing but its timeout ever settles a job's promise
C36_OnlyTimeoutSettles ==
    \A job \in 1..Len(pool.promises) : pool.promises[job] \in {"pending", "rejected: timeout"}

\* EXECUTE messages go out in submission order, and a Worker computes only the
\* current job of its own busy wrapper
FifoOnePerWorker(p) ==
    /\ \A k \in 1..Len(p.posted) : p.posted[k].job = k
    /\ \A k \in 1..Len(p.queue) : p.queue[k] = Len(p.posted) + k
    /\ \A i \in 1..Len(p.threads) :
           p.threads[i] # NoJob
               => p.workers[i].busy /\ p.workers[i].currentJobId = p.threads[i]
    /\ \A i, j \in 1..Len(p.workers) :
           (i # j /\ p.workers[i].busy /\ p.workers[j].busy)
               => p.workers[i].currentJobId # p.workers[j].currentJobId

\* C37: jobs are dispatched in submission order, at most one per worker, and
\* the step in which a worker posts RESULT or ERROR leaves that worker idle if
\* no job is queued and otherwise running the oldest queued job.
C37_WorkerFreedOnReply ==
    [][ /\ FifoOnePerWorker(pool')
        /\ \A r \in pool'.reported \ pool.reported :
               IF pool.queue = << >>
               THEN pool'.workers[r.worker] = IdleWorker
               ELSE /\ pool'.workers[r.worker] =
                          [ busy |-> TRUE, currentJobId |-> Head(pool.queue) ]
                    /\ pool'.threads[r.worker] = Head(pool.queue)
                    /\ pool'.queue = Tail(pool.queue) ]_vars

\* C37 without the reply: submission order and one job per worker
C37_FifoOnePerWorker == FifoOnePerWorker(pool)

\* ------------------------------------------------------------------ surface properties
\* C38: the renderer a render call draws with is the one registered, at that
\* moment, for the engine's current tier.
C38_RendersWithRegisteredSurface ==
    lastOp = "render"
        => \A i \in RenderCalls(opTrace) :
               opTrace[i].renderer = engine.renderers[engine.state.currentTier]

\* C38 without the registration: the renderer drawn with was made for the
\* engine's current tier
C38_RendersWithSurfaceOfCurrentTier ==
    lastOp = "render"
        => \A i \in RenderCalls(opTrace) :
               tierOf(opTrace[i].renderer) = engine.state.currentTier

\* ------------------------------------------------------------------ second engine specification
\* a second engine with an SVG surface of its own, made while the first one's
\* frames are in the detection module's history
SecondEngine(override) ==
    onEvent(
      registerRenderer(
        registerRenderer(
          registerRenderer(NewEngine(override), SVG, "svg2"),
          CANVAS, "canvas1"),
        WEBGL, "webgl1"),
      "h1")

\* new HybridEngine(config) and its set-up: the module's history is not touched
CreateEngine(override) ==
    /\ engine.renderers[SVG] = "svg1"
    /\ Commit("new", [Here EXCEPT !.e = SecondEngine(override)], NoData)

NextShared ==
    \/ \E ft \in FrameTimes : Render(LargeData, ft, FALSE, MaxPerfRenders)
    \/ \E d \in {LargeData, NoData} : EvaluateTierChange(d)
    \/ \E t \in RendererTier : ForceSwitchTier(t)
    \/ \E o \in PerfOverrides : CreateEngine(o)

SpecShared == InitPerf /\ [][NextShared]_vars

\* ------------------------------------------------------------------ second engine properties
\* the frames this engine recorded, as the detection module would hold them
OwnHistory(e) ==
    [ i \in 1..Len(e.frameMetrics) |->
        [ timestamp |-> e.frameMetrics[i].timestamp, frameTime |-> e.frameMetrics[i].frameTime ] ]

\* C39: evaluateTierChange leaves the engine on the tier it would choose if the
\* history held the engine's own frames and nothing else.
C39_TierDependsOnOwnFrames ==
    [][ lastOp' = "evaluateTierChange"
          => engine'.state.currentTier =
               evaluateTierChange(World(engine, OwnHistory(engine), now, << >>),
                                  lastData').e.state.currentTier ]_vars

\* C39 for an engine that is the only one ever made
C39_OnlyEngineDependsOnOwnFrames ==
    [][ (lastOp' = "evaluateTierChange" /\ engine.renderers[SVG] = "svg1")
          => engine'.state.currentTier =
               evaluateTierChange(World(engine, OwnHistory(engine), now, << >>),
                                  lastData').e.state.currentTier ]_vars

\* ------------------------------------------------------------------ configuration specification
\* Partial<HybridRendererConfig> over the fields the engine model has: a
\* function on some of thresholds.forceRenderer, performanceBudgets.autoDegrade
\* and performanceBudgets.degradeFrameThreshold
ConfigFields == {"forceRenderer", "autoDegrade", "degradeFrameThreshold"}

ConfigUpdates ==
    { [ f \in given |-> full[f] ] :
        full \in [ forceRenderer : {None, CANVAS}, autoDegrade : BOOLEAN,
                   degradeFrameThreshold : {ScenarioThreshold, DefaultDegradeFrameThreshold} ],
        given \in SUBSET ConfigFields }

\* updateConfig(updates): mergeConfig(updates) spreads the updates over
\* DEFAULT_CONFIG; evaluateTierChange() follows when updates.thresholds is given
updateConfig(w, updates) ==
    LET w1 == [w EXCEPT !.e.config = mergeConfig(Spread(DefaultOverride, updates))]
    IN IF "forceRenderer" \in DOMAIN updates THEN evaluateTierChange(w1, NoData) ELSE w1

UpdateConfig(updates) ==
    /\ ~engine.isDestroyed
    /\ Commit("updateConfig", updateConfig(Here, updates), NoData)

NextConfig ==
    \/ \E u \in ConfigUpdates : UpdateConfig(u)
    \/ \E ft \in FrameTimes : Render(LargeData, ft, FALSE, MaxPerfRenders)
    \/ \E d \in {LargeData, NoData} : EvaluateTierChange(d)

SpecConfig == InitPerf /\ [][NextConfig]_vars

\* ------------------------------------------------------------------ configuration properties
ConfigField(config, field) ==
    CASE field = "forceRenderer" -> config.thresholds.forceRenderer
      [] field = "autoDegrade" -> config.autoDegrade
      [] field = "degradeFrameThreshold" -> config.degradeFrameThreshold

\* C40: updateConfig(updates) leaves every configuration field that is not in
\* updates with the value it had before the call.
C40_UpdateKeepsOtherFields ==
    [][ \A u \in ConfigUpdates :
          UpdateConfig(u)
            => \A f \in ConfigFields \ DOMAIN u :
                   ConfigField(engine'.config, f) = ConfigField(engine.config, f) ]_vars

\* what updateConfig does: the fields in updates take the values given, every
\* other field goes back to its default
C40_UpdateResetsOtherFields ==
    [][ \A u \in ConfigUpdates :
          UpdateConfig(u)
            => /\ \A f \in DOMAIN u : ConfigField(engine'.config, f) = u[f]
               /\ \A f \in ConfigFields \ DOMAIN u :
                      ConfigField(engine'.config, f) = DefaultOverride[f] ]_vars

====
